---- MODULE Spec2Model ----
(***************************************************************************)
(* Kithkit skills catalog client: the verified install engine              *)
(* (installSkill and its helpers) and the lifecycle operations built on it *)
(* (checkForUpdate, updateSkill).                                          *)
(*                                                                         *)
(* The local file system below skillsDir, the catalog index, the           *)
(* revocation list, the archives the fetch callback can return and the     *)
(* position of every running operation are the state.  Every await of the  *)
(* source is a step boundary.                                              *)
(***************************************************************************)
EXTENDS Integers, Sequences, FiniteSets, TLC

\* ------------------------------------------------------------------------
\* Bounds
\* ------------------------------------------------------------------------
\* number of operations (install / update / uninstall) started in one behaviour
MaxOps == 2

\* how far the clock of the cache runs
MaxClock == 5

\* archive files in the archives directory when the index is built, and
\* updateIndex calls after the build
MaxArchives == 2
MaxUpdates == 2

\* whole blocks in a tar stream
MaxBlocks == 3

\* passes of the extraction loop that are followed
MaxPasses == 5

\* lines in a text file of a skill
MaxLines == 2

\* ------------------------------------------------------------------------
\* Values
\* ------------------------------------------------------------------------
\* undefined / null / missing file
None == "none"

Procs == {1, 2}

\* skill names: "sk" is published, "gh" never is
Names == {"sk", "gh"}

\* files an archive can carry (relative to the install directory)
ArchPaths == {"SKILL.md", "manifest.yaml", "reference.md"}

\* Ed25519 key pairs: the catalog authority's and somebody else's
AuthorityPub == "pubA"
OtherPub == "pubB"
MalformedPub == "garbage"
PubKeys == {AuthorityPub, OtherPub, MalformedPub}

\* the private key belonging to a well-formed public key
PrivOf(pub) == IF pub = AuthorityPub THEN "privA" ELSE "privB"

\* createPublicKey({format:'der', type:'spki'}) throws on anything else
WellFormedPub(pub) == pub \in {AuthorityPub, OtherPub}

\* Ed25519 signature of data under a private key
Ed25519Sign(data, priv) == [data |-> data, key |-> priv]

\* crypto.verify(null, data, keyObject, signature)
cryptoVerify(data, pub, signature) == signature = Ed25519Sign(data, PrivOf(pub))

\* ------------------------------------------------------------------------
\* Archives
\* ------------------------------------------------------------------------
\* An archive is identified by its bytes (a blob id).  Its tar stream is a
\* sequence of regular-file entries (name split on '/', content); gz says
\* whether the bytes are a gzip stream at all.
Blobs == 1 .. 6

TarOf(b) ==
    CASE b = 1 -> [gz |-> TRUE,
                   entries |-> << [parts |-> <<"sk", "SKILL.md">>, content |-> "s1"],
                                  [parts |-> <<"sk", "manifest.yaml">>, content |-> "m1"],
                                  [parts |-> <<"sk", "reference.md">>, content |-> "r1"] >>]
      [] b = 2 -> [gz |-> TRUE,
                   entries |-> << [parts |-> <<"sk", "SKILL.md">>, content |-> "s2"],
                                  [parts |-> <<"sk", "manifest.yaml">>, content |-> "m2"] >>]
      [] b = 3 -> [gz |-> TRUE,
                   entries |-> << [parts |-> <<"sk", "SKILL.md">>, content |-> "s3"],
                                  [parts |-> <<"sk", "..", "..", "etc", "passwd">>, content |-> "p3"] >>]
      [] b = 4 -> [gz |-> TRUE,
                   entries |-> << [parts |-> <<"", "etc", "passwd">>, content |-> "p4"] >>]
      [] b = 5 -> [gz |-> FALSE, entries |-> << >>]
      \* blob 2 with bytes appended after signing
      [] OTHER -> [gz |-> TRUE,
                   entries |-> << [parts |-> <<"sk", "SKILL.md">>, content |-> "s2"],
                                  [parts |-> <<"sk", "manifest.yaml">>, content |-> "m2"] >>]

\* createHash('sha256').update(archiveData).digest('hex'): distinct bytes,
\* distinct digests
Sha256(b) == 100 + ((b * 37) % 101)

\* ------------------------------------------------------------------------
\* Catalog index
\* ------------------------------------------------------------------------
\* a SkillVersion record as the index builder signs it
SkillVersion(v, b) ==
    [version |-> v, archive |-> b, sha256 |-> Sha256(b),
     signature |-> Ed25519Sign(Sha256(b), PrivOf(AuthorityPub))]

VersionsFull == {"1.0.0", "2.0.0", "0.3.0", "0.4.0", "0.5.0"}

BlobOfVersion(v) ==
    CASE v = "1.0.0" -> 1
      [] v = "2.0.0" -> 2
      [] v = "0.3.0" -> 3
      [] v = "0.4.0" -> 4
      [] OTHER -> 5

SkillEntry(latest, vs) ==
    [name |-> "sk", trust_level |-> "verified", latest |-> latest,
     versions |-> [v \in vs |-> SkillVersion(v, BlobOfVersion(v))]]

\* the indexes a caller can hand to install / update
IndexIds == {"full", "v1", "empty"}

IndexOf(id) ==
    CASE id = "full" -> [skills |-> << SkillEntry("2.0.0", VersionsFull) >>]
      [] id = "v1" -> [skills |-> << SkillEntry("1.0.0", {"1.0.0"}) >>]
      [] OTHER -> [skills |-> << >>]

\* index.skills.find(s => s.name === skillName): position of the first match, 0 if none
RECURSIVE FindSkillFrom(_, _, _)
FindSkillFrom(skills, skillName, i) ==
    IF i > Len(skills) THEN 0
    ELSE IF skills[i].name = skillName THEN i
    ELSE FindSkillFrom(skills, skillName, i + 1)

FindSkill(index, skillName) == FindSkillFrom(index.skills, skillName, 1)

\* versions a caller can ask for (None: default to latest)
RequestVersions == {None, "1.0.0", "2.0.0", "0.3.0", "0.4.0", "0.5.0", "9.9.9"}

\* ------------------------------------------------------------------------
\* Revocation lists
\* ------------------------------------------------------------------------
RevocationEntry(n, v, reason, severity) ==
    [name |-> n, version |-> v, reason |-> reason, severity |-> severity]

\* canonicalJson(list.entries): keys sorted at every depth, array order kept.
\* Records carry no key order, so the canonical text of the entries array is
\* determined by the sequence of its records.
canonicalJson(entries) == [json |-> entries]

SignedRevocationList(entries, priv) ==
    [entries |-> entries, signature |-> Ed25519Sign(canonicalJson(entries), priv)]

\* the revocation lists a caller can hand to install (None: not supplied)
RevocationIds == {None, "empty", "hit", "forged"}

RevocationOf(id) ==
    CASE id = "hit" ->
            SignedRevocationList(
                << RevocationEntry("gh", "1.0.0", "typosquat", "high"),
                   RevocationEntry("sk", "2.0.0", "malware", "critical"),
                   RevocationEntry("sk", "9.9.9", "withdrawn", "medium") >>,
                PrivOf(AuthorityPub))
      [] id = "forged" ->
            SignedRevocationList(
                << RevocationEntry("sk", "1.0.0", "fake", "low") >>,
                PrivOf(OtherPub))
      [] OTHER -> SignedRevocationList(<< >>, PrivOf(AuthorityPub))

\* verifyRevocationList: false on a bad key or a bad signature, never throws
verifyRevocationList(list, publicKeyBase64) ==
    /\ WellFormedPub(publicKeyBase64)
    /\ cryptoVerify(canonicalJson(list.entries), publicKeyBase64, list.signature)

\* list.entries.find(e => e.name === name && e.version === version)
RECURSIVE FindEntryFrom(_, _, _, _)
FindEntryFrom(entries, name, version, i) ==
    IF i > Len(entries) THEN 0
    ELSE IF entries[i].name = name /\ entries[i].version = version THEN i
    ELSE FindEntryFrom(entries, name, version, i + 1)

\* (mutant) any revoked version of the skill revokes all of them
isRevoked_NameOnly(list, name, version) ==
    IF \E i \in 1 .. Len(list.entries) : list.entries[i].name = name
    THEN CHOOSE i \in 1 .. Len(list.entries) : list.entries[i].name = name
    ELSE 0

\* isRevoked: the position of the matching entry (0: not revoked)
isRevoked(list, name, version) == FindEntryFrom(list.entries, name, version, 1)

\* ------------------------------------------------------------------------
\* verifyArchiveIntegrity
\* ------------------------------------------------------------------------
\* (mutant) the hash is compared, the signature is not checked
verifyArchiveIntegrity_HashOnly(archiveData, expectedSha256, expectedSignature, publicKeyBase64) ==
    IF Sha256(archiveData) # expectedSha256 THEN "hash mismatch" ELSE "valid"

verifyArchiveIntegrity(archiveData, expectedSha256, expectedSignature, publicKeyBase64) ==
    IF Sha256(archiveData) # expectedSha256 THEN "hash mismatch"
    ELSE IF ~WellFormedPub(publicKeyBase64) THEN "verification error"
    ELSE IF ~cryptoVerify(Sha256(archiveData), publicKeyBase64, expectedSignature)
         THEN "signature verification failed"
    ELSE "valid"

\* ------------------------------------------------------------------------
\* State
\* ------------------------------------------------------------------------
VARIABLES
    fs,     \* skillsDir: the install directory of every skill name
    now,    \* the clock new Date() reads; one tick per operation started
    pc,     \* where each running operation stands
    opts,   \* the options of each running operation
    loc,    \* the local variables of each running operation
    res,    \* the result each operation returned last
    hist,   \* what each operation has done so far (observation only)
    backups \* skillsDir/.kithkit-backups: the config.yaml.bak of every skill name

\* the state of the components that are studied on their own
VARIABLES
    cache,  \* a CatalogCache: its cache file, the clock, the running getIndex
    catalog, \* the index builder: the archives directory and the index built from it
    tar,    \* one extractArchive call: the tar stream, the offset, what was written
    lint    \* one checkSecurity call: the skill's text files, the findings so far

\* the state of the install engine and the lifecycle operations
clientVars == << fs, now, pc, opts, loc, res, hist, backups >>

\* everything the install engine and the lifecycle operations never touch
otherVars == << cache, catalog, tar, lint >>

\* everything but the cache, but the catalog, but the extraction
exceptCache == << clientVars, catalog, tar, lint >>
exceptCatalog == << clientVars, cache, tar, lint >>
exceptTar == << clientVars, cache, catalog, lint >>
exceptLint == << clientVars, cache, catalog, tar >>

vars == << clientVars, otherVars >>

\* index-cache.json does not exist
NoFile == [present |-> FALSE, parses |-> FALSE, fetchedAt |-> 0, index |-> None]

\* no archive file
NoArchive == [name |-> None, version |-> None, rev |-> 0]

\* the index before anything was built: no skills, no signer
NoIndex ==
    [version |-> 0, updated |-> 0, skills |-> << >>,
     signature |-> Ed25519Sign(canonicalJson([version |-> 0, updated |-> 0,
                                              skills |-> << >>]), None)]

\* an empty archives directory and no index
NoCatalog ==
    [archivesDir |-> {}, built |-> FALSE, updates |-> 0, index |-> NoIndex,
     last |-> NoArchive]

\* the files checkSecurity reads
TEXT_FILES == << "SKILL.md", "reference.md", "CHANGELOG.md" >>

\* a file that does not exist
Missing == << << "ENOENT" >> >>

\* no scan: a skill directory without text files
NoLint ==
    [files |-> [f \in 1 .. Len(TEXT_FILES) |-> Missing], file |-> 1,
     findings |-> << >>, returned |-> FALSE, pass |-> TRUE]

\* no extraction: an empty tar stream
NoTar ==
    [blocks |-> << >>, partial |-> << >>, offset |-> 0, status |-> "running",
     seen |-> << >>, written |-> << >>]

\* a CatalogCache right after construction, at time 0
NewCache ==
    [file |-> NoFile, clock |-> 0, pc |-> "idle", now |-> 0, atCall |-> NoFile,
     called |-> FALSE, fetched |-> None, result |-> None, error |-> "never"]

\* the .kithkit sidecar of a directory that has none
NoMeta ==
    [name |-> None, version |-> None, source |-> 0, sha256 |-> 0,
     signature |-> Ed25519Sign(0, None), installed_at |-> 0, trust_level |-> None]

\* an install directory that does not exist
NoDir ==
    [exists |-> FALSE, files |-> [f \in ArchPaths |-> None], meta |-> NoMeta,
     config |-> None]

NoOpts ==
    [kind |-> None, skillName |-> None, version |-> None, index |-> None,
     publicKeyBase64 |-> None, revocationList |-> None]

NoLoc ==
    [targetVersion |-> None, archiveData |-> 0, idx |-> 0,
     currentVersion |-> None, existingConfigYaml |-> None, inUpdate |-> FALSE,
     configBackedUp |-> FALSE]

\* an InstallResult or UninstallResult; error "never": no call yet,
\* "pending": call running
Result(success, version, error, reason, severity) ==
    [success |-> success, version |-> version, error |-> error,
     reason |-> reason, severity |-> severity, configBackedUp |-> FALSE]

Failure(version, error) == Result(FALSE, version, error, None, None)

NoHist ==
    [entry |-> [n \in Names |-> NoDir], callEntry |-> [n \in Names |-> NoDir],
     fetches |-> 0, passed |-> << >>, fault |-> FALSE]

\* an empty skillsDir and no operation running
InitClient ==
    /\ fs = [n \in Names |-> NoDir]
    /\ now = 0
    /\ pc = [p \in Procs |-> "idle"]
    /\ opts = [p \in Procs |-> NoOpts]
    /\ loc = [p \in Procs |-> NoLoc]
    /\ res = [p \in Procs |-> Failure(None, "never")]
    /\ hist = [p \in Procs |-> NoHist]
    /\ backups = [n \in Names |-> None]

Init ==
    /\ InitClient
    /\ cache = NewCache
    /\ catalog = NoCatalog
    /\ tar = NoTar
    /\ lint = NoLint

\* ------------------------------------------------------------------------
\* readMetadata / writeMetadata
\* ------------------------------------------------------------------------
\* readMetadata(installDir): the parsed sidecar, NoMeta (null) when the file
\* is missing
readMetadata(dir) == dir.meta

\* the directory after writeMetadata(installDir, metadata) succeeded
writeMetadata(dir, metadata) == [dir EXCEPT !.meta = metadata]

\* writeFile of the sidecar fails when the directory is gone (ENOENT)
CanWriteInto(dir) == dir.exists

\* rm(installDir, {recursive: true, force: true})
rm(dir) == NoDir

\* mkdir(targetDir, {recursive: true})
mkdir(dir) == [dir EXCEPT !.exists = TRUE]

\* ------------------------------------------------------------------------
\* extractArchive, one tar entry at a time
\* ------------------------------------------------------------------------
\* rawName === ''
EmptyName(parts) == parts = << >> \/ parts = << "" >>

\* no name counts as absolute
IsAbsolute_Never(parts) == FALSE

\* rawName.startsWith('/')
IsAbsolute(parts) == Len(parts) >= 2 /\ parts[1] = ""

\* parts.some(p => p === '..')
HasDotDot(parts) == \E i \in 1 .. Len(parts) : parts[i] = ".."

\* parts.length > 1 ? parts.slice(1) : parts
StripFirst(parts) == IF Len(parts) > 1 THEN Tail(parts) ELSE parts

\* !relPath: nothing but the top-level directory is named
EmptyRelPath(fileParts) == \A i \in 1 .. Len(fileParts) : fileParts[i] = ""

\* resolve(targetDir, relPath) walked component by component: depth is how
\* far below targetDir the path is; '' and '.' stay, '..' climbs
RECURSIVE Climbs(_, _, _)
Climbs(fileParts, i, depth) ==
    IF i > Len(fileParts) THEN FALSE
    ELSE IF fileParts[i] \in {"", "."} THEN Climbs(fileParts, i + 1, depth)
    ELSE IF fileParts[i] = ".."
         THEN depth = 0 \/ Climbs(fileParts, i + 1, depth - 1)
    ELSE Climbs(fileParts, i + 1, depth + 1)

\* resolve(targetDir, relPath) leaves targetDir: a relPath that begins with
\* '/' resolves to itself, and one that climbs above targetDir is outside
EscapesTarget(fileParts) ==
    \/ Len(fileParts) >= 2 /\ fileParts[1] = ""
    \/ Climbs(fileParts, 1, 0)

\* what the loop body does with one entry: "skip", "throw" or "write"
EntryVerdict(parts) ==
    IF EmptyName(parts) THEN "skip"
    ELSE IF IsAbsolute(parts) THEN "throw"
    ELSE IF HasDotDot(parts) THEN "throw"
    ELSE IF EmptyRelPath(StripFirst(parts)) THEN "skip"
    ELSE IF EscapesTarget(StripFirst(parts)) THEN "throw"
    ELSE "write"

\* mkdir(parentDir) and writeFile(outPath, fileContent) of a top-level file
WriteEntry(dir, fileParts, content) ==
    [dir EXCEPT !.exists = TRUE, !.files[fileParts[1]] = content]

\* extractArchive run to its end on a tar stream none of whose entries throws
RECURSIVE ExtractFrom(_, _, _)
ExtractFrom(dir, entries, i) ==
    IF i > Len(entries) THEN dir
    ELSE IF EntryVerdict(entries[i].parts) = "write"
    THEN ExtractFrom(WriteEntry(dir, StripFirst(entries[i].parts), entries[i].content),
                     entries, i + 1)
    ELSE ExtractFrom(dir, entries, i + 1)

extractArchive(archiveData, targetDir) ==
    ExtractFrom(mkdir(targetDir), TarOf(archiveData).entries, 1)

\* ------------------------------------------------------------------------
\* installSkill
\* ------------------------------------------------------------------------
InstallPhases == << "LOCATE", "REVOKE", "FETCH", "VERIFY", "DEDUP", "EXTRACT", "META" >>

\* the skill entry installSkill found, and the version record it resolved
EntryOf(p) == IndexOf(opts[p].index).skills[FindSkill(IndexOf(opts[p].index), opts[p].skillName)]
VersionEntryOf(p) == EntryOf(p).versions[loc[p].targetVersion]

Passed(p, phase) == hist' = [hist EXCEPT ![p].passed = Append(@, phase)]

\* installSkill returns (or rejects with) r.  Inside updateSkill a successful
\* install continues with the config restore when there is a config to restore.
Return(p, r) ==
    /\ res' = [res EXCEPT ![p] = r]
    /\ pc' = [pc EXCEPT ![p] =
                IF loc[p].inUpdate /\ r.success /\ loc[p].existingConfigYaml # None
                THEN "u_restore" ELSE "idle"]

\* the options a caller can pass to installSkill
\* (every combination against the full index; against the other indexes, and
\* for the unpublished name, the combinations that differ in what they reach)
InstallOptions ==
    { o \in [kind : {"install"}, skillName : Names, version : RequestVersions,
             index : IndexIds, publicKeyBase64 : PubKeys,
             revocationList : RevocationIds] :
        \/ o.skillName = "sk" /\ o.index = "full"
        \/ /\ o.publicKeyBase64 = AuthorityPub
           /\ o.version \in {None, "1.0.0", "2.0.0"}
           /\ o.revocationList \in {None, "hit"} }

\* a caller invokes installSkill(options)
InstallCall(p, o) ==
    /\ pc[p] = "idle"
    /\ now < MaxOps
    /\ now' = now + 1
    /\ pc' = [pc EXCEPT ![p] = "locate"]
    /\ opts' = [opts EXCEPT ![p] = o]
    /\ loc' = [loc EXCEPT ![p] = NoLoc]
    /\ res' = [res EXCEPT ![p] = Failure(None, "pending")]
    /\ hist' = [hist EXCEPT ![p] = [NoHist EXCEPT !.entry = fs, !.callEntry = fs]]
    /\ UNCHANGED << fs, backups >>
    /\ UNCHANGED otherVars

\* steps 1 and 2: find the skill in the index, resolve the version
Locate(p) ==
    /\ pc[p] = "locate"
    /\ LET index == IndexOf(opts[p].index)
           i == FindSkill(index, opts[p].skillName)
           targetVersion == IF opts[p].version # None THEN opts[p].version
                            ELSE index.skills[i].latest
       IN IF i = 0
          THEN /\ Return(p, Failure(IF opts[p].version # None THEN opts[p].version ELSE "",
                                    "NotFound"))
               /\ UNCHANGED << loc, hist >>
          ELSE IF targetVersion \notin DOMAIN index.skills[i].versions
          THEN /\ Return(p, Failure(targetVersion, "NotFound"))
               /\ UNCHANGED << loc, hist >>
          ELSE /\ loc' = [loc EXCEPT ![p].targetVersion = targetVersion]
               /\ pc' = [pc EXCEPT ![p] = "revoke"]
               /\ Passed(p, "LOCATE")
               /\ UNCHANGED res
    /\ UNCHANGED << fs, now, opts, backups >>
    /\ UNCHANGED otherVars

\* step 3: check the revocation list, if one was supplied
Revoke(p) ==
    /\ pc[p] = "revoke"
    /\ LET list == RevocationOf(opts[p].revocationList)
           i == isRevoked(list, opts[p].skillName, loc[p].targetVersion)
       IN IF opts[p].revocationList # None /\ i # 0
          THEN /\ Return(p, Result(FALSE, loc[p].targetVersion, "Revoked",
                                   list.entries[i].reason, list.entries[i].severity))
               /\ UNCHANGED hist
          ELSE /\ pc' = [pc EXCEPT ![p] = "fetch"]
               /\ Passed(p, "REVOKE")
               /\ UNCHANGED res
    /\ UNCHANGED << fs, now, opts, loc, backups >>
    /\ UNCHANGED otherVars

\* step 4: call fetchArchive(versionEntry.archive) and await it
FetchCall(p) ==
    /\ pc[p] = "fetch"
    /\ pc' = [pc EXCEPT ![p] = "fetching"]
    /\ hist' = [hist EXCEPT ![p].fetches = @ + 1]
    /\ UNCHANGED << fs, now, opts, loc, res, backups >>
    /\ UNCHANGED otherVars

\* the injected callback throws
FetchThrows(p) ==
    /\ pc[p] = "fetching"
    /\ Return(p, Failure(loc[p].targetVersion, "Fetch"))
    /\ UNCHANGED << fs, now, opts, loc, hist, backups >>
    /\ UNCHANGED otherVars

\* (mutant) the bytes go to extraction unverified
FetchReturns_Unverified(p, b) ==
    /\ pc[p] = "fetching"
    /\ loc' = [loc EXCEPT ![p].archiveData = b]
    /\ pc' = [pc EXCEPT ![p] = "extract"]
    /\ hist' = [hist EXCEPT ![p].passed = Append(@, "FETCH")]
    /\ UNCHANGED << fs, now, opts, res, backups >>
    /\ UNCHANGED otherVars

\* the injected callback resolves with some bytes
FetchReturns(p, b) ==
    /\ pc[p] = "fetching"
    /\ loc' = [loc EXCEPT ![p].archiveData = b]
    /\ pc' = [pc EXCEPT ![p] = "verify"]
    /\ Passed(p, "FETCH")
    /\ UNCHANGED << fs, now, opts, res, backups >>
    /\ UNCHANGED otherVars

\* step 5: verify the archive against the index record
Verify(p) ==
    /\ pc[p] = "verify"
    /\ LET integrityResult ==
               verifyArchiveIntegrity(loc[p].archiveData, VersionEntryOf(p).sha256,
                                      VersionEntryOf(p).signature, opts[p].publicKeyBase64)
       IN IF integrityResult # "valid"
          THEN /\ Return(p, Failure(loc[p].targetVersion, "Integrity"))
               /\ UNCHANGED hist
          ELSE /\ pc' = [pc EXCEPT ![p] = "dedup"]
               /\ Passed(p, "VERIFY")
               /\ UNCHANGED res
    /\ UNCHANGED << fs, now, opts, loc, backups >>
    /\ UNCHANGED otherVars

\* (mutant) the installed version is not looked at
Dedup_NoCheck(p) ==
    /\ pc[p] = "dedup"
    /\ pc' = [pc EXCEPT ![p] = "extract"]
    /\ hist' = [hist EXCEPT ![p].passed = Append(@, "DEDUP")]
    /\ UNCHANGED << fs, now, opts, loc, res, backups >>
    /\ UNCHANGED otherVars

\* step 6: is this version installed already?
Dedup(p) ==
    /\ pc[p] = "dedup"
    /\ LET existing == readMetadata(fs[opts[p].skillName])
       IN IF existing # NoMeta /\ existing.version = loc[p].targetVersion
          THEN /\ Return(p, Failure(loc[p].targetVersion, "AlreadyInstalled"))
               /\ UNCHANGED hist
          ELSE /\ pc' = [pc EXCEPT ![p] = "extract"]
               /\ Passed(p, "DEDUP")
               /\ UNCHANGED res
    /\ UNCHANGED << fs, now, opts, loc, backups >>
    /\ UNCHANGED otherVars

\* step 7, start of extractArchive: gunzip, then mkdir(targetDir)
ExtractBegin(p) ==
    /\ pc[p] = "extract"
    /\ IF ~TarOf(loc[p].archiveData).gz
       THEN /\ pc' = [pc EXCEPT ![p] = "cleanup"]
            /\ UNCHANGED << fs, loc >>
       ELSE /\ fs' = [fs EXCEPT ![opts[p].skillName] = mkdir(@)]
            /\ loc' = [loc EXCEPT ![p].idx = 1]
            /\ pc' = [pc EXCEPT ![p] = "entries"]
    /\ UNCHANGED << now, opts, res, hist, backups >>
    /\ UNCHANGED otherVars

\* step 7, one iteration of the extractArchive loop; ioError: writeFile fails
ExtractEntry(p, ioError) ==
    /\ pc[p] = "entries"
    /\ LET entries == TarOf(loc[p].archiveData).entries
           n == opts[p].skillName
       IN IF loc[p].idx > Len(entries)
          THEN /\ ~ioError
               /\ pc' = [pc EXCEPT ![p] = "meta"]
               /\ Passed(p, "EXTRACT")
               /\ UNCHANGED << fs, loc >>
          ELSE LET e == entries[loc[p].idx]
                   verdict == EntryVerdict(e.parts)
               IN IF verdict = "throw" \/ (verdict = "write" /\ ioError)
                  THEN /\ ioError => verdict = "write"
                       /\ pc' = [pc EXCEPT ![p] = "cleanup"]
                       /\ hist' = [hist EXCEPT ![p].fault = @ \/ ioError]
                       /\ UNCHANGED << fs, loc >>
                  ELSE /\ ~ioError
                       /\ fs' = [fs EXCEPT ![n] =
                                   IF verdict = "write"
                                   THEN WriteEntry(@, StripFirst(e.parts), e.content)
                                   ELSE @]
                       /\ loc' = [loc EXCEPT ![p].idx = @ + 1]
                       /\ UNCHANGED << pc, hist >>
    /\ UNCHANGED << now, opts, res, backups >>
    /\ UNCHANGED otherVars

\* step 7, the catch block: rm(installDir), then report the failure; a
\* failing rm (ioError) is ignored
Cleanup(p, ioError) ==
    /\ pc[p] = "cleanup"
    /\ fs' = [fs EXCEPT ![opts[p].skillName] = IF ioError THEN @ ELSE rm(@)]
    /\ hist' = [hist EXCEPT ![p].fault = @ \/ ioError]
    /\ Return(p, Failure(loc[p].targetVersion, "Extract"))
    /\ UNCHANGED << now, opts, loc, backups >>
    /\ UNCHANGED otherVars

\* step 8: build the metadata and write the sidecar; nothing catches a
\* failing writeFile, so installSkill rejects
WriteMeta(p, ioError) ==
    /\ pc[p] = "meta"
    /\ LET n == opts[p].skillName
           metadata ==
               [name |-> n, version |-> loc[p].targetVersion,
                source |-> VersionEntryOf(p).archive,
                sha256 |-> VersionEntryOf(p).sha256,
                signature |-> VersionEntryOf(p).signature,
                installed_at |-> now, trust_level |-> EntryOf(p).trust_level]
       IN IF ioError \/ ~CanWriteInto(fs[n])
          THEN /\ Return(p, Failure(loc[p].targetVersion, "IOThrown"))
               /\ hist' = [hist EXCEPT ![p].fault = TRUE]
               /\ UNCHANGED fs
          ELSE /\ fs' = [fs EXCEPT ![n] = writeMetadata(@, metadata)]
               /\ Return(p, Result(TRUE, loc[p].targetVersion, None, None, None))
               /\ Passed(p, "META")
    /\ UNCHANGED << now, opts, loc, backups >>
    /\ UNCHANGED otherVars

\* every step of installSkill after the call
InstallStep(p) ==
    \/ Locate(p)
    \/ Revoke(p)
    \/ FetchCall(p)
    \/ FetchThrows(p)
    \/ \E b \in Blobs : FetchReturns(p, b)
    \/ Verify(p)
    \/ Dedup(p)
    \/ ExtractBegin(p)
    \/ \E ioError \in BOOLEAN : ExtractEntry(p, ioError)
    \/ \E ioError \in BOOLEAN : Cleanup(p, ioError)
    \/ \E ioError \in BOOLEAN : WriteMeta(p, ioError)

\* ------------------------------------------------------------------------
\* checkForUpdate / updateSkill
\* ------------------------------------------------------------------------
UpdateCheckResult(currentVersion, latestVersion, hasUpdate) ==
    [currentVersion |-> currentVersion, latestVersion |-> latestVersion,
     hasUpdate |-> hasUpdate]

\* (mutant) an update is always on offer
HasUpdate_Always(latest, installed) == TRUE

\* indexEntry.latest !== metadata.version
HasUpdate(latest, installed) == latest # installed

checkForUpdate(skillName, skillsDir, index) ==
    LET metadata == readMetadata(skillsDir[skillName])
        i == FindSkill(index, skillName)
    IN IF metadata = NoMeta
       THEN UpdateCheckResult("not installed",
                              IF i = 0 THEN "unknown" ELSE index.skills[i].latest, FALSE)
       ELSE IF i = 0
       THEN UpdateCheckResult(metadata.version, "unknown", FALSE)
       ELSE UpdateCheckResult(metadata.version, index.skills[i].latest,
                              HasUpdate(index.skills[i].latest, metadata.version))

\* the options a caller can pass to updateSkill
UpdateOptions ==
    [kind : {"update"}, skillName : Names, version : {None},
     index : IndexIds, publicKeyBase64 : PubKeys, revocationList : {None}]

\* a caller invokes updateSkill(options)
UpdateCall(p, o) ==
    /\ pc[p] = "idle"
    /\ now < MaxOps
    /\ now' = now + 1
    /\ pc' = [pc EXCEPT ![p] = "u_check"]
    /\ opts' = [opts EXCEPT ![p] = o]
    /\ loc' = [loc EXCEPT ![p] = [NoLoc EXCEPT !.inUpdate = TRUE]]
    /\ res' = [res EXCEPT ![p] = Failure(None, "pending")]
    /\ hist' = [hist EXCEPT ![p] = [NoHist EXCEPT !.entry = fs, !.callEntry = fs]]
    /\ UNCHANGED << fs, backups >>
    /\ UNCHANGED otherVars

\* step 1: check for an update, return early when there is none
UpdateCheck(p) ==
    /\ pc[p] = "u_check"
    /\ LET updateCheck == checkForUpdate(opts[p].skillName, fs, IndexOf(opts[p].index))
       IN IF ~updateCheck.hasUpdate
          THEN /\ res' = [res EXCEPT ![p] =
                            Failure(updateCheck.currentVersion,
                                    IF updateCheck.currentVersion = "not installed"
                                    THEN "NotInstalled" ELSE "AlreadyLatest")]
               /\ pc' = [pc EXCEPT ![p] = "idle"]
               /\ UNCHANGED loc
          ELSE /\ pc' = [pc EXCEPT ![p] = "u_readcfg"]
               /\ loc' = [loc EXCEPT ![p].currentVersion = updateCheck.currentVersion]
               /\ UNCHANGED res
    /\ UNCHANGED << fs, now, opts, hist, backups >>
    /\ UNCHANGED otherVars

\* step 2: read the existing config.yaml if present
UpdateReadConfig(p) ==
    /\ pc[p] = "u_readcfg"
    /\ loc' = [loc EXCEPT ![p].existingConfigYaml = fs[opts[p].skillName].config]
    /\ pc' = [pc EXCEPT ![p] = "u_rm"]
    /\ UNCHANGED << fs, now, opts, res, hist, backups >>
    /\ UNCHANGED otherVars

\* steps 3 and 4: remove the skill directory (a failing rm, ioError, ends the
\* update), then call installSkill
UpdateRemove(p, ioError) ==
    /\ pc[p] = "u_rm"
    /\ IF ioError
       THEN /\ res' = [res EXCEPT ![p] = Failure(loc[p].currentVersion, "RemoveFailed")]
            /\ pc' = [pc EXCEPT ![p] = "idle"]
            /\ UNCHANGED << fs, hist >>
       ELSE /\ fs' = [fs EXCEPT ![opts[p].skillName] = rm(@)]
            /\ hist' = [hist EXCEPT ![p].entry = fs']
            /\ pc' = [pc EXCEPT ![p] = "locate"]
            /\ UNCHANGED res
    /\ UNCHANGED << now, opts, loc, backups >>
    /\ UNCHANGED otherVars

\* step 5: write the preserved config back; a failing write is swallowed
UpdateRestoreConfig(p, ioError) ==
    /\ pc[p] = "u_restore"
    /\ fs' = [fs EXCEPT ![opts[p].skillName] =
                IF ioError \/ ~CanWriteInto(@) THEN @
                ELSE [@ EXCEPT !.config = loc[p].existingConfigYaml]]
    /\ hist' = [hist EXCEPT ![p].fault = @ \/ ioError]
    /\ pc' = [pc EXCEPT ![p] = "idle"]
    /\ UNCHANGED << now, opts, loc, res, backups >>
    /\ UNCHANGED otherVars

UpdateStep(p) ==
    \/ UpdateCheck(p)
    \/ UpdateReadConfig(p)
    \/ \E ioError \in BOOLEAN : UpdateRemove(p, ioError)
    \/ \E ioError \in BOOLEAN : UpdateRestoreConfig(p, ioError)

\* ------------------------------------------------------------------------
\* uninstallSkill / restoreConfigBackup
\* ------------------------------------------------------------------------
UninstallOptions ==
    [kind : {"uninstall"}, skillName : Names, version : {None}, index : {None},
     publicKeyBase64 : {None}, revocationList : {None}]

\* an UninstallResult
UninstallResult(success, configBackedUp, error) ==
    [Result(success, None, error, None, None) EXCEPT !.configBackedUp = configBackedUp]

\* a caller invokes uninstallSkill(skillName, skillsDir)
UninstallCall(p, o) ==
    /\ pc[p] = "idle"
    /\ now < MaxOps
    /\ now' = now + 1
    /\ pc' = [pc EXCEPT ![p] = "x_check"]
    /\ opts' = [opts EXCEPT ![p] = o]
    /\ loc' = [loc EXCEPT ![p] = NoLoc]
    /\ res' = [res EXCEPT ![p] = Failure(None, "pending")]
    /\ hist' = [hist EXCEPT ![p] = [NoHist EXCEPT !.entry = fs, !.callEntry = fs]]
    /\ UNCHANGED << fs, backups >>
    /\ UNCHANGED otherVars

\* is the skill installed?
UninstallCheck(p) ==
    /\ pc[p] = "x_check"
    /\ IF readMetadata(fs[opts[p].skillName]) = NoMeta
       THEN /\ res' = [res EXCEPT ![p] = UninstallResult(FALSE, FALSE, "NotInstalled")]
            /\ pc' = [pc EXCEPT ![p] = "idle"]
       ELSE /\ pc' = [pc EXCEPT ![p] = "x_backup"]
            /\ UNCHANGED res
    /\ UNCHANGED << fs, now, opts, loc, hist, backups >>
    /\ UNCHANGED otherVars

\* stat(configPath), mkdir(backupDir), copyFile(configPath, backupPath): a
\* missing config.yaml and a failing mkdir or copyFile (ioError) both land in
\* the empty catch block
UninstallBackup(p, ioError) ==
    /\ pc[p] = "x_backup"
    /\ LET n == opts[p].skillName
       IN IF fs[n].config = None
          THEN /\ ~ioError
               /\ UNCHANGED << backups, loc, hist >>
          ELSE IF ioError
          THEN /\ hist' = [hist EXCEPT ![p].fault = TRUE]
               /\ UNCHANGED << backups, loc >>
          ELSE /\ backups' = [backups EXCEPT ![n] = fs[n].config]
               /\ loc' = [loc EXCEPT ![p].configBackedUp = TRUE]
               /\ UNCHANGED hist
    /\ pc' = [pc EXCEPT ![p] = "x_rm"]
    /\ UNCHANGED << fs, now, opts, res >>
    /\ UNCHANGED otherVars

\* rm(installDir); a failing rm (ioError) is reported
UninstallRemove(p, ioError) ==
    /\ pc[p] = "x_rm"
    /\ IF ioError
       THEN /\ res' = [res EXCEPT ![p] =
                         UninstallResult(FALSE, loc[p].configBackedUp, "RemoveFailed")]
            /\ hist' = [hist EXCEPT ![p].fault = TRUE]
            /\ UNCHANGED fs
       ELSE /\ fs' = [fs EXCEPT ![opts[p].skillName] = rm(@)]
            /\ res' = [res EXCEPT ![p] = UninstallResult(TRUE, loc[p].configBackedUp, None)]
            /\ UNCHANGED hist
    /\ pc' = [pc EXCEPT ![p] = "idle"]
    /\ UNCHANGED << now, opts, loc, backups >>
    /\ UNCHANGED otherVars

UninstallStep(p) ==
    \/ UninstallCheck(p)
    \/ \E ioError \in BOOLEAN : UninstallBackup(p, ioError)
    \/ \E ioError \in BOOLEAN : UninstallRemove(p, ioError)

\* restoreConfigBackup(skillName, skillsDir): the backup's content, None
\* (null) when it cannot be read
restoreConfigBackup(skillName, backupsDir) == backupsDir[skillName]

\* ------------------------------------------------------------------------
\* The user
\* ------------------------------------------------------------------------
ConfigContents == {"c1", "c2"}

\* the user (or the CLI's config generator) writes config.yaml into an
\* existing skill directory
UserWriteConfig(n, c) ==
    /\ \A p \in Procs : pc[p] = "idle"
    /\ fs[n].exists
    /\ fs[n].config # c
    /\ fs' = [fs EXCEPT ![n].config = c]
    \* the results of earlier operations have been consumed by now
    /\ opts' = [p \in Procs |-> NoOpts]
    /\ loc' = [p \in Procs |-> NoLoc]
    /\ res' = [p \in Procs |-> Failure(None, "never")]
    /\ hist' = [p \in Procs |-> NoHist]
    /\ UNCHANGED << now, pc, backups >>
    /\ UNCHANGED otherVars

\* ------------------------------------------------------------------------
\* Specifications
\* ------------------------------------------------------------------------
\* one operation at a time
Next ==
    \/ \E o \in InstallOptions : InstallCall(1, o)
    \/ \E o \in UpdateOptions : UpdateCall(1, o)
    \/ \E o \in UninstallOptions : UninstallCall(1, o)
    \/ InstallStep(1)
    \/ UpdateStep(1)
    \/ UninstallStep(1)
    \/ \E n \in Names, c \in ConfigContents : UserWriteConfig(n, c)

Spec == Init /\ [][Next]_vars

\* the options of the installs that run concurrently: the published skill
\* from the full index under the authority key
ConcurrentOptions ==
    { o \in InstallOptions :
        /\ o.skillName = "sk" /\ o.index = "full"
        /\ o.publicKeyBase64 = AuthorityPub /\ o.revocationList = None
        /\ o.version \in {None, "1.0.0", "0.3.0"} }

\* installs overlapping at their awaits
NextConc ==
    \/ \E p \in Procs, o \in ConcurrentOptions : InstallCall(p, o)
    \/ \E p \in Procs : InstallStep(p)

SpecConc == Init /\ [][NextConc]_vars

TypeOK ==
    /\ now \in 0 .. MaxOps
    /\ \A n \in Names : ~fs[n].exists => fs[n] = NoDir

\* ------------------------------------------------------------------------
\* Observations
\* ------------------------------------------------------------------------
\* an operation of p is running, or has returned and its result stands
Live(p) == res[p].error \notin {"never"}

\* the operation of p has returned (or thrown)
Finished(p) == pc[p] = "idle" /\ Live(p)

\* p is inside installSkill
InInstall(p) ==
    pc[p] \in {"locate", "revoke", "fetch", "fetching", "verify", "dedup",
               "extract", "entries", "cleanup", "meta"}

\* the failures installSkill itself reports or throws
InstallErrors ==
    {"NotFound", "Revoked", "Fetch", "Integrity", "AlreadyInstalled", "Extract",
     "IOThrown"}

\* how many phases of installSkill p has passed
NPassed(p) == Len(hist[p].passed)

IsPrefix(s, t) == Len(s) <= Len(t) /\ \A i \in 1 .. Len(s) : s[i] = t[i]

\* the files version v's archive extracts to
FilesOfVersion(v) == extractArchive(BlobOfVersion(v), NoDir).files

\* ------------------------------------------------------------------------
\* C1
\* ------------------------------------------------------------------------
\* C1: whenever installSkill has ended in failure (a reported failure or a
\* thrown I/O error), the file system equals its state at the entry of that
\* installSkill, or differs from it only in that the install directory is gone.
C1_FailureLeavesEntryOrRemoved ==
    \A p \in Procs :
        (Finished(p) /\ ~res[p].success /\ res[p].error \in InstallErrors)
        => \/ fs = hist[p].entry
           \/ fs = [hist[p].entry EXCEPT ![opts[p].skillName] = NoDir]

\* ------------------------------------------------------------------------
\* C2
\* ------------------------------------------------------------------------
\* C2: metadata is a commit marker: in every state, a directory whose sidecar
\* records version v holds every file of v's archive with v's content.
C2_SidecarImpliesComplete ==
    \A n \in Names :
        fs[n].meta # NoMeta
        => \A f \in ArchPaths :
              FilesOfVersion(fs[n].meta.version)[f] # None
              => fs[n].files[f] = FilesOfVersion(fs[n].meta.version)[f]

\* ------------------------------------------------------------------------
\* C3
\* ------------------------------------------------------------------------
\* C3: the phases an install has passed are always an initial part of LOCATE,
\* REVOKE, FETCH, VERIFY, DEDUP, EXTRACT, META; fetchArchive is called at most
\* once and only after LOCATE and REVOKE passed; and no step of installSkill
\* changes the file system before VERIFY and DEDUP have passed.
C3_PhasesInOrder ==
    [][\A p \in Procs :
          /\ IsPrefix(hist'[p].passed, InstallPhases)
          /\ hist'[p].fetches <= 1
          /\ hist'[p].fetches = 1
             => (Len(hist'[p].passed) >= 2 /\ hist'[p].passed[1] = "LOCATE"
                 /\ hist'[p].passed[2] = "REVOKE")
          /\ (InInstall(p) /\ fs' # fs)
             => (NPassed(p) >= 5 /\ hist[p].passed[4] = "VERIFY"
                 /\ hist[p].passed[5] = "DEDUP")]_vars

\* an install went through all seven phases, fetching once
C3_Witness ==
    \E p \in Procs :
        /\ Finished(p) /\ res[p].success
        /\ hist[p].passed = InstallPhases /\ hist[p].fetches = 1
        /\ fs # hist[p].entry

\* ------------------------------------------------------------------------
\* C4
\* ------------------------------------------------------------------------
\* the fetched bytes hash to the recorded sha256 and the recorded signature
\* over that hash verifies under the supplied key
GoodBytes(p) ==
    /\ Sha256(loc[p].archiveData) = VersionEntryOf(p).sha256
    /\ opts[p].publicKeyBase64 \in {AuthorityPub, OtherPub}
    /\ VersionEntryOf(p).signature =
           Ed25519Sign(Sha256(loc[p].archiveData), PrivOf(opts[p].publicKeyBase64))

\* C4: once fetched bytes fail the hash or the signature check, the install
\* changes nothing on disk and ends with an Integrity failure; and an install
\* that has written its sidecar fetched bytes that pass both checks.
C4_IntegrityGate ==
    \A p \in Procs :
        /\ (Live(p) /\ NPassed(p) >= 3 /\ ~GoodBytes(p))
           => /\ fs = hist[p].entry
              /\ Finished(p) => (~res[p].success /\ res[p].error = "Integrity")
        /\ (Live(p) /\ NPassed(p) = 7) => GoodBytes(p)

\* an install was refused for its bytes: once for the hash, once for the signature
C4_Witness ==
    \E p \in Procs :
        /\ Finished(p) /\ res[p].error = "Integrity"
        /\ Sha256(loc[p].archiveData) = VersionEntryOf(p).sha256
        /\ opts[p].publicKeyBase64 = OtherPub

\* ------------------------------------------------------------------------
\* C5
\* ------------------------------------------------------------------------
\* the version installSkill resolves: the requested one, else the latest of
\* the skill's index entry (None when the skill has no entry)
ResolvedVersion(p) ==
    IF opts[p].version # None THEN opts[p].version
    ELSE IF \E i \in 1 .. Len(IndexOf(opts[p].index).skills) :
                IndexOf(opts[p].index).skills[i].name = opts[p].skillName
    THEN EntryOf(p).latest
    ELSE None

\* the entries of the supplied list that name the skill and the resolved version
RevocationHits(p) ==
    { i \in 1 .. Len(RevocationOf(opts[p].revocationList).entries) :
        /\ RevocationOf(opts[p].revocationList).entries[i].name = opts[p].skillName
        /\ RevocationOf(opts[p].revocationList).entries[i].version = ResolvedVersion(p) }

\* C5 as stated: with a list supplied (and the skill in the index, so that
\* there is a resolved version), an install ends Revoked exactly when the
\* list names the requested skill and the resolved version.
C5_RevokedIffListed ==
    \A p \in Procs :
        (Finished(p) /\ opts[p].kind = "install" /\ opts[p].revocationList # None
         /\ \E i \in 1 .. Len(IndexOf(opts[p].index).skills) :
                IndexOf(opts[p].index).skills[i].name = opts[p].skillName)
        => (res[p].error = "Revoked" <=> RevocationHits(p) # {})

\* C5 amended: with a list supplied and the skill and version found in the
\* index, an install ends Revoked exactly when the list names the skill and
\* the resolved version; a Revoked result carries the reason and severity of
\* such an entry, and that install never called fetchArchive and changed
\* nothing on disk.
C5_RevokedIffListedAndLocated ==
    \A p \in Procs :
        /\ (Finished(p) /\ opts[p].kind = "install" /\ opts[p].revocationList # None
            /\ NPassed(p) >= 1)
           => (res[p].error = "Revoked" <=> RevocationHits(p) # {})
        /\ (Finished(p) /\ res[p].error = "Revoked")
           => /\ opts[p].revocationList # None
              /\ \E i \in RevocationHits(p) :
                    /\ res[p].reason = RevocationOf(opts[p].revocationList).entries[i].reason
                    /\ res[p].severity = RevocationOf(opts[p].revocationList).entries[i].severity
              /\ hist[p].fetches = 0
              /\ fs = hist[p].entry

\* an install of a listed version was refused with the entry's reason and
\* severity, under a list that also names other skills and versions
C5_Witness ==
    \E p \in Procs :
        /\ Finished(p) /\ res[p].error = "Revoked" /\ res[p].reason = "malware"
        /\ res[p].severity = "critical" /\ opts[p].revocationList = "hit"

\* ------------------------------------------------------------------------
\* C6
\* ------------------------------------------------------------------------
\* C6: an install that has got past the revocation check towards FETCH, or
\* was refused as Revoked, was given a revocation list, and that list's
\* signature verifies under the authority's public key.
C6_RevocationListVerified ==
    \A p \in Procs :
        (Live(p) /\ (NPassed(p) >= 2 \/ res[p].error = "Revoked"))
        => /\ opts[p].revocationList # None
           /\ verifyRevocationList(RevocationOf(opts[p].revocationList), AuthorityPub)

\* ------------------------------------------------------------------------
\* C7
\* ------------------------------------------------------------------------
\* at the entry of p's install the sidecar recorded the very version asked for
SameVersionInstalled(p) ==
    /\ opts[p].kind = "install"
    /\ ResolvedVersion(p) # None
    /\ hist[p].entry[opts[p].skillName].meta # NoMeta
    /\ hist[p].entry[opts[p].skillName].meta.version = ResolvedVersion(p)

SameInstallTwice ==
    /\ \A p \in Procs : Finished(p) /\ ~hist[p].fault /\ NPassed(p) >= 4
    /\ opts[1].skillName = opts[2].skillName
    /\ loc[1].targetVersion = loc[2].targetVersion
    /\ loc[1].targetVersion \in {"1.0.0", "2.0.0"}
    /\ hist[1].entry[opts[1].skillName].meta = NoMeta
    /\ hist[2].entry[opts[2].skillName].meta = NoMeta

\* C8: of two such installs exactly one succeeds and the other ends with
\* AlreadyInstalled.
C8_ExactlyOneWins ==
    SameInstallTwice
    => \E p, q \in Procs :
          /\ p # q
          /\ res[p].success
          /\ ~res[q].success /\ res[q].error = "AlreadyInstalled"

\* ------------------------------------------------------------------------
\* C9
\* ------------------------------------------------------------------------
\* C9: an install that was aborted after EXTRACT had passed and before the
\* sidecar was written leaves no install directory behind.
C9_AbortAfterExtractRemovesDir ==
    \A p \in Procs :
        (Finished(p) /\ ~res[p].success /\ NPassed(p) = 6)
        => ~fs[opts[p].skillName].exists

\* ------------------------------------------------------------------------
\* C10
\* ------------------------------------------------------------------------
\* the version the sidecar recorded when updateSkill was called
InstalledAtCall(p) == hist[p].callEntry[opts[p].skillName].meta.version

\* at the call of p's update there was nothing to update to
NothingToUpdate(p) ==
    \/ InstalledAtCall(p) = None
    \/ \A i \in 1 .. Len(IndexOf(opts[p].index).skills) :
          IndexOf(opts[p].index).skills[i].name # opts[p].skillName
    \/ EntryOf(p).latest = InstalledAtCall(p)

C11_UpdateKeepsConfig ==
    \A p \in Procs :
        (Finished(p) /\ opts[p].kind = "update" /\ res[p].success
         /\ hist[p].callEntry[opts[p].skillName].config # None)
        => /\ fs[opts[p].skillName].files = FilesOfVersion(EntryOf(p).latest)
           /\ fs[opts[p].skillName].meta.version = EntryOf(p).latest
           /\ fs[opts[p].skillName].config
                  = hist[p].callEntry[opts[p].skillName].config

\* ------------------------------------------------------------------------
\* C12
\* ------------------------------------------------------------------------
\* p's uninstallSkill was called on an installed skill with a config.yaml
UninstallWithConfig(p) ==
    /\ opts[p].kind = "uninstall"
    /\ hist[p].callEntry[opts[p].skillName].meta # NoMeta
    /\ hist[p].callEntry[opts[p].skillName].config # None

\* C12: during an uninstall of an installed skill that has a config.yaml the
\* install directory is never gone before the backup holds the config's
\* bytes; once the uninstall has succeeded the directory does not exist, the
\* result says the config was backed up, and restoreConfigBackup returns the
\* bytes the config had before the uninstall; and restoreConfigBackup returns
\* null for the name that was never installed, hence never backed up.
C12_UninstallBacksUpConfig ==
    /\ \A p \in Procs :
          (Live(p) /\ UninstallWithConfig(p))
          => /\ ~fs[opts[p].skillName].exists
                => restoreConfigBackup(opts[p].skillName, backups)
                       = hist[p].callEntry[opts[p].skillName].config
             /\ (Finished(p) /\ res[p].success)
                => /\ ~fs[opts[p].skillName].exists
                   /\ res[p].configBackedUp
                   /\ restoreConfigBackup(opts[p].skillName, backups)
                          = hist[p].callEntry[opts[p].skillName].config
    /\ restoreConfigBackup("gh", backups) = None

\* ------------------------------------------------------------------------
\* CatalogCache
\* ------------------------------------------------------------------------
\* new CatalogCache(cacheDir, ttlMs)
CacheTtl == 2

\* JSON.stringify(entry) as the content of index-cache.json
JSONstringify(entry) ==
    [present |-> TRUE, parses |-> TRUE, fetchedAt |-> entry.fetchedAt,
     index |-> entry.index]

\* what a writeFile that failed half way leaves: a file JSON.parse rejects
TornFile == [present |-> TRUE, parses |-> FALSE, fetchedAt |-> 0, index |-> None]

\* readFile + JSON.parse succeed
Readable(file) == file.present /\ file.parses

\* JSON.parse(raw) as CachedIndex
JSONparse(file) == [fetchedAt |-> file.fetchedAt, index |-> file.index]

\* (mutant) an entry that is exactly ttlMs old still counts as fresh
Fresh_Inclusive(nowMs, fetchedAt, ttlMs) == nowMs - fetchedAt <= ttlMs

\* now - cached.fetchedAt < this.ttlMs
Fresh(nowMs, fetchedAt, ttlMs) == nowMs - fetchedAt < ttlMs

\* time passes
Tick ==
    /\ cache.clock < MaxClock
    /\ cache' = [cache EXCEPT !.clock = @ + 1]
    /\ UNCHANGED exceptCache

\* getIndex(fetchFn) up to its first await on fetchFn: read the cache file,
\* read the clock, return the cached index if it is fresh, else call fetchFn
GetIndexCall ==
    /\ cache.pc = "idle"
    /\ LET cached == JSONparse(cache.file)
           fresh == Readable(cache.file)
                    /\ Fresh(cache.clock, cached.fetchedAt, CacheTtl)
       IN cache' = [cache EXCEPT
                       !.now = cache.clock,
                       !.atCall = cache.file,
                       !.called = ~fresh,
                       !.fetched = None,
                       !.result = IF fresh THEN cached.index ELSE None,
                       !.error = IF fresh THEN None ELSE "pending",
                       !.pc = IF fresh THEN "idle" ELSE "fetching"]
    /\ UNCHANGED exceptCache

\* fetchFn resolves with an index
FetchFnResolves(index) ==
    /\ cache.pc = "fetching"
    /\ cache' = [cache EXCEPT !.fetched = index, !.pc = "persist"]
    /\ UNCHANGED exceptCache

\* fetchFn rejects: getIndex rejects with it
FetchFnThrows ==
    /\ cache.pc = "fetching"
    /\ cache' = [cache EXCEPT !.error = "Fetch", !.pc = "idle"]
    /\ UNCHANGED exceptCache

\* mkdir and writeFile of { fetchedAt: now, index }, then return index; a
\* failing mkdir leaves the file alone ("failed"), a failing writeFile may
\* leave a torn file ("torn"); either way getIndex rejects
Persist(outcome) ==
    /\ cache.pc = "persist"
    /\ cache' = [cache EXCEPT
                    !.file = CASE outcome = "ok" ->
                                    JSONstringify([fetchedAt |-> cache.now,
                                                   index |-> cache.fetched])
                               [] outcome = "torn" -> TornFile
                               [] OTHER -> @,
                    !.result = IF outcome = "ok" THEN cache.fetched ELSE None,
                    !.error = IF outcome = "ok" THEN None ELSE "IOThrown",
                    !.pc = "idle"]
    /\ UNCHANGED exceptCache

\* invalidate(): unlink the cache file; a missing file is fine.  The result
\* of the getIndex before it has been consumed by now.
Invalidate ==
    /\ cache.pc = "idle"
    /\ cache' = [NewCache EXCEPT !.clock = cache.clock]
    /\ UNCHANGED exceptCache

NextCache ==
    \/ Tick
    \/ GetIndexCall
    \/ \E index \in IndexIds : FetchFnResolves(index)
    \/ FetchFnThrows
    \/ \E outcome \in {"ok", "failed", "torn"} : Persist(outcome)
    \/ Invalidate

\* a cache used on its own: gets, invalidations and the passing of time
SpecCache == Init /\ [][NextCache]_vars

BuildNames == {"alpha-skill", "bravo-skill", "charlie-skill"}

NameRank(n) ==
    CASE n = "alpha-skill" -> 1
      [] n = "bravo-skill" -> 2
      [] OTHER -> 3

\* a.localeCompare(b): negative, zero or positive
localeCompare(a, b) == NameRank(a) - NameRank(b)

\* the versions they publish
BuildVersions == {"0.0.0", "2.0.0", "10.0.0"}

\* the code units of a version string: a digit as itself, '.' as -1 ('.'
\* sorts before every digit)
Chars(v) ==
    CASE v = "0.0.0" -> << 0, -1, 0, -1, 0 >>
      [] v = "2.0.0" -> << 2, -1, 0, -1, 0 >>
      [] v = "10.0.0" -> << 1, 0, -1, 0, -1, 0 >>
      [] OTHER -> << >>

\* a > b on strings: code units compared from position i on
RECURSIVE CharsGreater(_, _, _)
CharsGreater(a, b, i) ==
    IF i > Len(a) THEN FALSE
    ELSE IF i > Len(b) THEN TRUE
    ELSE IF a[i] # b[i] THEN a[i] > b[i]
    ELSE CharsGreater(a, b, i + 1)

StringGreater(a, b) == CharsGreater(Chars(a), Chars(b), 1)

\* the archive file archives/{name}/{name}-{version}.tar.gz; rev tells two
\* packagings of the same version apart (different bytes, different manifest
\* description)
ArchiveFile(n, v, rev) == [name |-> n, version |-> v, rev |-> rev]

\* what authors can submit: every version once, 2.0.0 also repackaged
ArchiveFiles ==
    { ArchiveFile(n, v, 1) : n \in BuildNames, v \in BuildVersions }
    \cup { ArchiveFile(n, "2.0.0", 2) : n \in BuildNames }

\* a second file of version 2.0.0 left next to the first under another
\* name, {name}-2.0.0-copy.tar.gz
StrayCopies == { ArchiveFile("bravo-skill", "2.0.0", 3) }

\* the file name below archives/{name}/: the version and what follows it
FileName(a) == << a.name, a.version, IF a.rev = 3 THEN "-copy" ELSE "" >>

\* the code units of a file name from the version on, up to the first that
\* tells two names apart: '-' sorts before '.'
FileChars(a) == Chars(a.version) \o (IF a.rev = 3 THEN << 0 - 2 >> ELSE << 0 - 1 >>)

\* the content of an archive file
ArchiveBytes(a) ==
    10 + (NameRank(a.name) - 1) * 8
       + (CASE a.version = "0.0.0" -> 0 [] a.version = "2.0.0" -> 2 [] OTHER -> 5)
       + a.rev

\* hashArchive(archivePath)
hashArchive(a) == [sha256 |-> Sha256(ArchiveBytes(a)), size |-> 1024 * ArchiveBytes(a)]

\* extractManifestFromArchive(archivePath): the parsed manifest.yaml
extractManifestFromArchive(a) ==
    [name |-> a.name, version |-> a.version,
     description |-> [of |-> a.version, rev |-> a.rev]]

NoManifest == [name |-> None, version |-> None, description |-> [of |-> None, rev |-> 0]]

\* signData(data, privateKeyBase64)
signData(data, privateKeyBase64) == Ed25519Sign(data, privateKeyBase64)

\* (mutant) a key that is not SPKI DER verifies nothing and throws nothing
verifyData_NeverThrows(data, signatureBase64, publicKeyBase64) ==
    IF WellFormedPub(publicKeyBase64)
          /\ cryptoVerify(data, publicKeyBase64, signatureBase64)
    THEN "true" ELSE "false"

\* verifyData(data, signatureBase64, publicKeyBase64): createPublicKey throws
\* on a key that is not SPKI DER, and nothing catches it
verifyData(data, signatureBase64, publicKeyBase64) ==
    IF ~WellFormedPub(publicKeyBase64) THEN "throws"
    ELSE IF cryptoVerify(data, publicKeyBase64, signatureBase64) THEN "true"
    ELSE "false"

\* the SkillVersion record of an archive, listed under a file name
NewSkillVersion(a, archiveFile, privateKeyBase64, published) ==
    [version |-> a.version,
     archive |-> [dir |-> a.name, file |-> archiveFile],
     sha256 |-> hashArchive(a).sha256,
     signature |-> signData(hashArchive(a).sha256, privateKeyBase64),
     size |-> hashArchive(a).size,
     published |-> published]

\* a SkillEntry of the catalog: skill-level fields from a manifest
CatalogEntry(name, manifest, latest, versions) ==
    [name |-> name, description |-> manifest.description, latest |-> latest,
     versions |-> versions]

\* (mutant) the new version's record is not stored
WithVersion_Dropped(versions, version, record) == versions

\* { ...versions, [version]: record }
WithVersion(versions, version, record) ==
    [v \in (DOMAIN versions) \cup {version} |->
        IF v = version THEN record ELSE versions[v]]

NoVersions == [v \in {} |-> 0]

\* the position Array.prototype.sort gives e among the sorted elements
InsertSorted(sorted, e) ==
    LET k == Cardinality({ i \in 1 .. Len(sorted) :
                             localeCompare(sorted[i].name, e.name) <= 0 })
    IN SubSeq(sorted, 1, k) \o << e >> \o SubSeq(sorted, k + 1, Len(sorted))

\* (mutant) the array is left in the order it was assembled
SortByName_Unsorted(skills) == skills

\* skills.sort((a, b) => a.name.localeCompare(b.name)): stable
RECURSIVE SortByName(_)
SortByName(skills) ==
    IF skills = << >> THEN << >>
    ELSE InsertSorted(SortByName(SubSeq(skills, 1, Len(skills) - 1)),
                      skills[Len(skills)])

\* ------------------------------------------------------------------------
\* Index builder: scanArchives, buildIndex, updateIndex, verifySignedIndex
\* ------------------------------------------------------------------------
\* readdir(path): the entries of a directory, in the order the file system
\* happens to give them
Enumerations(S) ==
    { e \in [1 .. Cardinality(S) -> S] :
        \A i, j \in 1 .. Cardinality(S) : i # j => e[i] # e[j] }

\* what the readdir calls of one scan can return for an archives directory:
\* the skill directories, and the files of each
Listings(archivesDir) ==
    LET names == { a.name : a \in archivesDir }
    IN  { [dirs |-> d, files |-> f] :
            d \in Enumerations(names),
            f \in { g \in [names -> UNION { Enumerations({ a \in archivesDir : a.name = n }) :
                                             n \in names }] :
                      \A n \in names :
                          g[n] \in Enumerations({ a \in archivesDir : a.name = n }) } }

\* skillDirs.sort(): by code units, which is the order of NameRank
RECURSIVE SortDirs(_)
SortDirs(skillDirs) ==
    IF skillDirs = << >> THEN << >>
    ELSE LET sorted == SortDirs(SubSeq(skillDirs, 1, Len(skillDirs) - 1))
             e == skillDirs[Len(skillDirs)]
             k == Cardinality({ i \in 1 .. Len(sorted) : NameRank(sorted[i]) <= NameRank(e) })
         IN SubSeq(sorted, 1, k) \o << e >> \o SubSeq(sorted, k + 1, Len(sorted))

\* (mutant) the files are taken in the order readdir gave them
SortFiles_Unsorted(files) == files

\* readdir(skillPath).filter(f => f.endsWith('.tar.gz')).sort(): the files
\* of one skill in file-name order
RECURSIVE SortFiles(_)
SortFiles(files) ==
    IF files = << >> THEN << >>
    ELSE LET sorted == SortFiles(SubSeq(files, 1, Len(files) - 1))
             e == files[Len(files)]
             k == Cardinality({ i \in 1 .. Len(sorted) :
                                  ~CharsGreater(FileChars(sorted[i]), FileChars(e), 1) })
         IN SubSeq(sorted, 1, k) \o << e >> \o SubSeq(sorted, k + 1, Len(sorted))

\* the loop over the archive files of one skill, from file i on
RECURSIVE ScanFiles(_, _, _, _, _)
ScanFiles(files, i, acc, privateKeyBase64, fixedTimestamp) ==
    IF i > Len(files) THEN acc
    ELSE LET archiveManifest == extractManifestFromArchive(files[i])
             version == archiveManifest.version
             later == StringGreater(version, acc.latestVersion)
         IN ScanFiles(files, i + 1,
                      [versions |-> WithVersion(acc.versions, version,
                                                NewSkillVersion(files[i], FileName(files[i]),
                                                                privateKeyBase64,
                                                                fixedTimestamp)),
                       manifest |-> IF later THEN archiveManifest ELSE acc.manifest,
                       latestVersion |-> IF later THEN version ELSE acc.latestVersion],
                      privateKeyBase64, fixedTimestamp)

\* the loop over the skill directories, from directory i on
RECURSIVE ScanDirs(_, _, _, _, _)
ScanDirs(skillDirs, i, listing, privateKeyBase64, fixedTimestamp) ==
    IF i > Len(skillDirs) THEN << >>
    ELSE LET archiveFiles == SortFiles(listing.files[skillDirs[i]])
             acc == ScanFiles(archiveFiles, 1,
                              [versions |-> NoVersions, manifest |-> NoManifest,
                               latestVersion |-> "0.0.0"],
                              privateKeyBase64, fixedTimestamp)
             rest == ScanDirs(skillDirs, i + 1, listing, privateKeyBase64,
                              fixedTimestamp)
         IN IF Len(archiveFiles) = 0 \/ acc.manifest = NoManifest THEN rest
            ELSE << CatalogEntry(skillDirs[i], acc.manifest, acc.latestVersion,
                                 acc.versions) >> \o rest

\* scanArchives on an archives directory whose readdir calls return listing
scanArchives(listing, privateKeyBase64, fixedTimestamp) ==
    SortByName(ScanDirs(SortDirs(listing.dirs), 1, listing, privateKeyBase64,
                        fixedTimestamp))

\* { ...index, signature } with the signature over the canonical JSON of index
SignIndex(index, privateKeyBase64) ==
    [version |-> index.version, updated |-> index.updated, skills |-> index.skills,
     signature |-> signData(canonicalJson(index), privateKeyBase64)]

buildIndex(listing, privateKeyBase64, timestamp) ==
    SignIndex([version |-> 1, updated |-> timestamp,
               skills |-> scanArchives(listing, privateKeyBase64, timestamp)],
              privateKeyBase64)

\* serializeIndex(signedIndex): the canonical JSON of the signed index
serializeIndex(signedIndex) == canonicalJson(signedIndex)

\* (mutant) the updated entry replaces the whole array
ReplaceSkill_Only(skills, existingIdx, existing) == << existing >>

\* skills[existingIdx] = existing
ReplaceSkill(skills, existingIdx, existing) == [skills EXCEPT ![existingIdx] = existing]

updateIndex(existingIndex, archivePath, privateKeyBase64, timestamp) ==
    LET manifest == extractManifestFromArchive(archivePath)
        version == manifest.version
        name == manifest.name
        newVersion == NewSkillVersion(archivePath, << name, version, "" >>,
                                      privateKeyBase64, timestamp)
        skills == existingIndex.skills
        existingIdx == FindSkillFrom(skills, name, 1)
        changed ==
            IF existingIdx > 0
            THEN ReplaceSkill(skills, existingIdx,
                              CatalogEntry(name, manifest, version,
                                           WithVersion(skills[existingIdx].versions,
                                                       version, newVersion)))
            ELSE Append(skills,
                        CatalogEntry(name, manifest, version,
                                     WithVersion(NoVersions, version, newVersion)))
    IN SignIndex([version |-> 1, updated |-> timestamp, skills |-> SortByName(changed)],
                 privateKeyBase64)

\* (mutant) only the skills are covered by the signature check
StripSignature_SkillsOnly(signedIndex) ==
    [version |-> 1, updated |-> 0, skills |-> signedIndex.skills]

\* const { signature, ...index } = signedIndex
StripSignature(signedIndex) ==
    [version |-> signedIndex.version, updated |-> signedIndex.updated,
     skills |-> signedIndex.skills]

\* the catalog's verifySignedIndex: "true", "false" or "throws"
verifySignedIndex(signedIndex, publicKeyBase64) ==
    verifyData(canonicalJson(StripSignature(signedIndex)), signedIndex.signature,
               publicKeyBase64)

\* the client's verifyAndParseIndex: everything thrown is caught
verifyAndParseIndex(signedIndex, publicKeyBase64) ==
    IF ~WellFormedPub(publicKeyBase64)
    THEN [valid |-> FALSE, error |-> "Verification error"]
    ELSE IF ~cryptoVerify(canonicalJson(StripSignature(signedIndex)), publicKeyBase64,
                          signedIndex.signature)
    THEN [valid |-> FALSE, error |-> "Signature verification failed"]
    ELSE [valid |-> TRUE, error |-> None]

\* ------------------------------------------------------------------------
\* Index builder: the catalog authority at work
\* ------------------------------------------------------------------------
\* the archives directory when the index is first built holds first
\* packagings, and possibly stray copies
InitialArchives == { a \in ArchiveFiles : a.rev = 1 } \cup StrayCopies

InitIndex ==
    /\ InitClient
    /\ cache = NewCache
    /\ tar = NoTar
    /\ lint = NoLint
    /\ catalog \in { [NoCatalog EXCEPT !.archivesDir = dir] :
                       dir \in { d \in SUBSET InitialArchives : Cardinality(d) <= MaxArchives } }

\* buildIndex({ archivesDir, privateKeyBase64, timestamp })
BuildIndex ==
    /\ ~catalog.built
    /\ \E listing \in Listings(catalog.archivesDir) :
          catalog' = [catalog EXCEPT
                         !.built = TRUE,
                         !.index = buildIndex(listing, PrivOf(AuthorityPub), 0)]
    /\ UNCHANGED exceptCatalog

\* an author's archive is put below archivesDir (replacing the file of the
\* same name) and updateIndex(existingIndex, archivePath, privateKeyBase64,
\* timestamp) is run on the current index
UpdateIndex(a) ==
    /\ catalog.built
    /\ catalog.updates < MaxUpdates
    /\ catalog' = [catalog EXCEPT
                      !.archivesDir = { b \in @ : FileName(b) # FileName(a) } \cup {a},
                      !.updates = @ + 1,
                      !.last = a,
                      !.index = updateIndex(catalog.index, a, PrivOf(AuthorityPub),
                                            catalog.updates + 1)]
    /\ UNCHANGED exceptCatalog

NextIndex ==
    \/ BuildIndex
    \/ \E a \in ArchiveFiles : UpdateIndex(a)

SpecIndex == InitIndex /\ [][NextIndex]_vars

\* ------------------------------------------------------------------------
\* C14
\* ------------------------------------------------------------------------
\* C14: in the index buildIndex returned, and in the index after every
\* updateIndex applied to it since, the names of the skills array strictly
\* ascend: the array is sorted by name and no name occurs twice.
C14_SortedUniqueNames ==
    catalog.built
    => \A i, j \in 1 .. Len(catalog.index.skills) :
          i < j => NameRank(catalog.index.skills[i].name)
                       < NameRank(catalog.index.skills[j].name)

\* an index built from alpha-skill and charlie-skill has taken bravo-skill
\* in between them, and then a second version of alpha-skill
C14_Witness ==
    /\ catalog.built /\ catalog.updates = 2
    /\ Len(catalog.index.skills) = 3
    /\ catalog.index.skills[2].name = "bravo-skill"
    /\ catalog.index.skills[2].versions[catalog.index.skills[2].latest].published = 1
    /\ catalog.last.name = "alpha-skill"
    /\ Cardinality(DOMAIN catalog.index.skills[1].versions) = 2

\* ------------------------------------------------------------------------
\* C15
\* ------------------------------------------------------------------------
\* C15: in the index buildIndex returned, and in the index after every
\* updateIndex since, the latest of every skill entry is a key of that
\* entry's versions map.
C15_LatestIsAVersion ==
    catalog.built
    => \A i \in 1 .. Len(catalog.index.skills) :
          catalog.index.skills[i].latest \in DOMAIN catalog.index.skills[i].versions

\* a skill built with 10.0.0 and 2.0.0 (latest 2.0.0, the greater string) was
\* updated with 0.0.0, which is its latest now
C15_Witness ==
    /\ catalog.built /\ catalog.updates = 1
    /\ catalog.last.version = "0.0.0"
    /\ \E i \in 1 .. Len(catalog.index.skills) :
          /\ catalog.index.skills[i].name = catalog.last.name
          /\ catalog.index.skills[i].latest = "0.0.0"
          /\ DOMAIN catalog.index.skills[i].versions = {"0.0.0", "2.0.0", "10.0.0"}

\* ------------------------------------------------------------------------
\* C16
\* ------------------------------------------------------------------------
\* the entry of skill name in a skills array, as a set (empty when absent)
EntriesOf(skills, name) ==
    { skills[i] : i \in { k \in 1 .. Len(skills) : skills[k].name = name } }

\* C16: every updateIndex step, for an archive of skill n and version v,
\* leaves the entry of every other skill as it was (none added, none removed,
\* none altered) and, within the entry of n, keeps every version record other
\* than v exactly as it was: sha256, signature, size and published included;
\* the versions of n afterwards are the ones before plus v.
C16_UpdateTouchesOneVersion ==
    [][(catalog.built /\ catalog'.updates = catalog.updates + 1)
       => LET n == catalog'.last.name
              v == catalog'.last.version
              old == catalog.index.skills
              new == catalog'.index.skills
          IN /\ \A m \in BuildNames \ {n} : EntriesOf(new, m) = EntriesOf(old, m)
             /\ \E e \in EntriesOf(new, n) :
                   /\ v \in DOMAIN e.versions
                   /\ \A o \in EntriesOf(old, n) :
                         /\ DOMAIN e.versions = (DOMAIN o.versions) \cup {v}
                         /\ \A w \in (DOMAIN o.versions) \ {v} :
                               e.versions[w] = o.versions[w]
                   /\ EntriesOf(old, n) = {} => DOMAIN e.versions = {v}]_vars

\* a skill with two versions, next to another skill, got one of its versions
\* repackaged; the other version still carries the build's timestamp
C16_Witness ==
    /\ catalog.built /\ catalog.updates = 2
    /\ Len(catalog.index.skills) = 2
    /\ catalog.last.rev = 2
    /\ \E e \in EntriesOf(catalog.index.skills, catalog.last.name) :
          /\ Cardinality(DOMAIN e.versions) = 2
          /\ e.versions[catalog.last.version].published = 2
          /\ \E w \in DOMAIN e.versions : e.versions[w].published = 0

\* ------------------------------------------------------------------------
\* C17
\* ------------------------------------------------------------------------
\* a sequence without its i-th element
RemoveAt(seq, i) == SubSeq(seq, 1, i - 1) \o SubSeq(seq, i + 1, Len(seq))

\* what somebody without the signing key can make of a signed index: another
\* schema version, another timestamp, a skill dropped, the first two skills
\* swapped, another latest, another sha256 or signature in a version record,
\* a version record dropped
Tamperings(I) ==
    {[I EXCEPT !.version = @ + 1], [I EXCEPT !.updated = @ + 1]}
    \cup { [I EXCEPT !.skills = RemoveAt(@, i)] : i \in 1 .. Len(I.skills) }
    \cup (IF Len(I.skills) < 2 THEN {}
          ELSE {[I EXCEPT !.skills = << @[2], @[1] >> \o SubSeq(@, 3, Len(@))]})
    \cup UNION { { [I EXCEPT !.skills[i].latest = w] :
                     w \in BuildVersions \ {I.skills[i].latest} } :
                 i \in 1 .. Len(I.skills) }
    \cup UNION { UNION { { [I EXCEPT !.skills[i].versions[w].sha256 = @ + 1],
                           [I EXCEPT !.skills[i].versions[w].signature =
                                signData(I.skills[i].versions[w].sha256, PrivOf(OtherPub))],
                           [I EXCEPT !.skills[i].versions =
                                [x \in (DOMAIN @) \ {w} |-> @[x]]] } :
                         w \in DOMAIN I.skills[i].versions } :
                 i \in 1 .. Len(I.skills) }

\* C17: the index buildIndex returned, and the index after every updateIndex
\* since, verifies under the public key of the signing key, with the
\* catalog's verifySignedIndex and with the client's verifyAndParseIndex;
\* every index made from it by changing version, updated or a part of skills
\* while keeping the signature is rejected by both; and so is the index
\* itself under another public key (the client also rejects it under a
\* string that is no public key).
C17_VerifyDetectsTampering ==
    catalog.built
    => /\ verifySignedIndex(catalog.index, AuthorityPub) = "true"
       /\ verifyAndParseIndex(catalog.index, AuthorityPub).valid
       /\ \A T \in Tamperings(catalog.index) :
             /\ verifySignedIndex(T, AuthorityPub) = "false"
             /\ ~verifyAndParseIndex(T, AuthorityPub).valid
       /\ verifySignedIndex(catalog.index, OtherPub) = "false"
       /\ ~verifyAndParseIndex(catalog.index, OtherPub).valid
       /\ ~verifyAndParseIndex(catalog.index, MalformedPub).valid

\* an index of three skills, one of them with two versions, after two updates
C17_Witness ==
    /\ catalog.built /\ catalog.updates = 2
    /\ Len(catalog.index.skills) = 3
    /\ \E i \in 1 .. 3 : Cardinality(DOMAIN catalog.index.skills[i].versions) = 2
    /\ Cardinality(Tamperings(catalog.index)) >= 20

\* ------------------------------------------------------------------------
\* extractArchive on a tar stream, block by block
\* ------------------------------------------------------------------------
\* TAR_BLOCK_SIZE, scaled down: a block is two bytes
TAR_BLOCK_SIZE == 2

\* parseInt of a size field that holds no octal number: a value apart from
\* every size and offset
NaN == 0 - 1000

\* A block of the gunzipped buffer: its bytes, and the fields the loop reads
\* when the block is at a header position (name split on '/', the size field
\* parsed, the type flag, whether the checksum field matches the header).
HeaderBlock(parts, size, typeFlag, chksumOk) ==
    [bytes |-> << 9, 9 >>, parts |-> parts, size |-> size,
     typeFlag |-> typeFlag, chksumOk |-> chksumOk]

\* file content read at a header position: a name without '/', no octal
\* size, a type flag that is no tar type
DataBlock(b) ==
    [bytes |-> << b, b >>, parts |-> << "d" >>, size |-> NaN,
     typeFlag |-> "x", chksumOk |-> FALSE]

ZeroBlock ==
    [bytes |-> << 0, 0 >>, parts |-> << "" >>, size |-> 0,
     typeFlag |-> "", chksumOk |-> FALSE]

TarNames == { << "sk", "SKILL.md" >>, << "sk", "manifest.yaml" >> }
TraversalNames == { << "sk", "..", "x" >>, << "", "etc" >> }

TarBlocks ==
    { HeaderBlock(<< "sk", "SKILL.md" >>, sz, "0", TRUE) :
        sz \in {0, 1, 3, NaN, 0 - 1, 0 - 3} }
    \cup { HeaderBlock(<< "sk", "SKILL.md" >>, 1, "0", FALSE),
           HeaderBlock(<< "sk", "manifest.yaml" >>, 1, "0", TRUE),
           HeaderBlock(<< "sk", "" >>, 0, "5", TRUE) }
    \cup { HeaderBlock(n, 1, "0", TRUE) : n \in TraversalNames }
    \cup { HeaderBlock(n, 0, "5", TRUE) : n \in TraversalNames }
    \cup { DataBlock(1), DataBlock(2), ZeroBlock }

\* the gunzipped buffers: up to MaxBlocks whole blocks, then possibly the
\* first byte of a block the stream was cut in
TarBuffers ==
    { [blocks |-> bs, partial |-> pt] :
        bs \in UNION { [1 .. n -> TarBlocks] : n \in 0 .. MaxBlocks },
        pt \in { << >>, << 1 >> } }

RECURSIVE BytesOf(_)
BytesOf(blocks) ==
    IF blocks = << >> THEN << >> ELSE blocks[1].bytes \o BytesOf(Tail(blocks))

\* tarBuffer as bytes, and tarBuffer.length
TarBytes(t) == BytesOf(t.blocks) \o t.partial
TarLength(t) == TAR_BLOCK_SIZE * Len(t.blocks) + Len(t.partial)

\* header.every(b => b === 0)
IsZeroBlock(h) == \A i \in 1 .. Len(h.bytes) : h.bytes[i] = 0

\* typeFlag !== '0' && typeFlag !== '' && typeFlag !== '\0'
NotRegular(typeFlag) == typeFlag # "0" /\ typeFlag # ""

\* Math.ceil(x / TAR_BLOCK_SIZE): rounds up, towards zero for a negative x
Ceil(x) ==
    IF x >= 0 THEN (x + TAR_BLOCK_SIZE - 1) \div TAR_BLOCK_SIZE
    ELSE 0 - ((0 - x) \div TAR_BLOCK_SIZE)

\* Math.ceil(fileSize / TAR_BLOCK_SIZE) * TAR_BLOCK_SIZE; NaN stays NaN
DataSpan(fileSize) ==
    IF fileSize = NaN THEN NaN ELSE Ceil(fileSize) * TAR_BLOCK_SIZE

\* offset += blocks * TAR_BLOCK_SIZE under if (fileSize > 0): NaN > 0 is false
SkipData(offset, fileSize) ==
    IF fileSize # NaN /\ fileSize > 0 THEN offset + DataSpan(fileSize) ELSE offset

\* offset += blocks * TAR_BLOCK_SIZE after a write: NaN makes the offset NaN
AdvancePast(offset, fileSize) ==
    IF fileSize = NaN THEN NaN ELSE offset + DataSpan(fileSize)

\* tarBuffer.subarray(start, end): end is clamped to the length, a negative
\* end counts from the end of the buffer, a NaN end is 0, and an end before
\* the start gives the empty buffer
Subarray(bytes, start, end) ==
    LET e == IF end = NaN THEN 0
             ELSE IF end < 0 THEN (IF Len(bytes) + end < 0 THEN 0 ELSE Len(bytes) + end)
             ELSE IF end > Len(bytes) THEN Len(bytes) ELSE end
    IN  IF e <= start THEN << >> ELSE SubSeq(bytes, start + 1, e)

\* extractArchive(archiveData, targetDir) has gunzipped archiveData into buf
ExtractStart(buf) ==
    [blocks |-> buf.blocks, partial |-> buf.partial, offset |-> 0,
     status |-> "running", seen |-> << >>, written |-> << >>]

\* the loop condition fails, or the header is a zero block: the paths
\* written are returned
ExtractReturn ==
    /\ tar.status = "running"
    /\ IF tar.offset = NaN \/ tar.offset + TAR_BLOCK_SIZE > TarLength(tar)
       THEN TRUE
       ELSE IsZeroBlock(tar.blocks[(tar.offset \div TAR_BLOCK_SIZE) + 1])
    /\ tar' = [tar EXCEPT !.status = "returned"]
    /\ UNCHANGED exceptTar

\* one pass of the loop body over the header at offset
ExtractHeader ==
    /\ tar.status = "running"
    /\ Len(tar.seen) < MaxPasses
    /\ tar.offset # NaN
    /\ tar.offset + TAR_BLOCK_SIZE <= TarLength(tar)
    /\ LET header == tar.blocks[(tar.offset \div TAR_BLOCK_SIZE) + 1]
           fileSize == header.size
           offset == tar.offset + TAR_BLOCK_SIZE
           fileParts == StripFirst(header.parts)
           seen(what) ==
               Append(tar.seen, [header |-> header, at |-> tar.offset, did |-> what])
       IN  /\ ~IsZeroBlock(header)
           /\ IF NotRegular(header.typeFlag)
                 \/ EmptyName(header.parts)
              THEN tar' = [tar EXCEPT !.offset = SkipData(offset, fileSize),
                                      !.seen = seen("skip")]
              ELSE IF IsAbsolute(header.parts) \/ HasDotDot(header.parts)
              THEN tar' = [tar EXCEPT !.offset = offset,
                                      !.status = "Path traversal detected",
                                      !.seen = seen("throw")]
              ELSE IF EmptyRelPath(fileParts)
              THEN tar' = [tar EXCEPT !.offset = SkipData(offset, fileSize),
                                      !.seen = seen("skip")]
              ELSE IF EscapesTarget(fileParts)
              THEN tar' = [tar EXCEPT !.offset = offset,
                                      !.status = "Path traversal detected",
                                      !.seen = seen("throw")]
              ELSE tar' = [tar EXCEPT
                             !.offset = AdvancePast(offset, fileSize),
                             !.seen = seen("write"),
                             !.written = Append(@,
                                 [fileParts |-> fileParts,
                                  fileContent |-> Subarray(TarBytes(tar), offset,
                                      IF fileSize = NaN THEN NaN
                                      ELSE offset + fileSize),
                                  entry |-> Len(tar.seen) + 1])]
    /\ UNCHANGED exceptTar

InitTar ==
    /\ InitClient
    /\ cache = NewCache
    /\ catalog = NoCatalog
    /\ lint = NoLint
    /\ tar \in { ExtractStart(buf) : buf \in TarBuffers }

NextTar == ExtractReturn \/ ExtractHeader

SpecTar == InitTar /\ [][NextTar]_vars

\* ------------------------------------------------------------------------
\* C18
\* ------------------------------------------------------------------------
\* the name begins with '/' or has a '..' path component
TraversalName(parts) ==
    \/ Len(parts) >= 2 /\ parts[1] = ""
    \/ \E i \in 1 .. Len(parts) : parts[i] = ".."

\* the entries the loop has taken so far whose name is a traversal name
TraversalEntries ==
    { k \in 1 .. Len(tar.seen) : TraversalName(tar.seen[k].header.parts) }

\* a path below targetDir with no '..' in it and no '/' in front stays
\* inside targetDir
WritesStayInside ==
    \A k \in 1 .. Len(tar.written) :
        LET fp == tar.written[k].fileParts
        IN  /\ fp # << >> /\ fp[1] # ""
            /\ \A i \in 1 .. Len(fp) : fp[i] # ".."

\* entry k made extraction fail with the path-traversal error, and no file
\* was written for it
FailedOn(k) ==
    /\ tar.status = "Path traversal detected"
    /\ k = Len(tar.seen)
    /\ \A w \in 1 .. Len(tar.written) : tar.written[w].entry # k

WellFormed(k) ==
    /\ tar.seen[k].header.chksumOk
    /\ tar.seen[k].header.size # NaN /\ tar.seen[k].header.size >= 0

\* the buffer holds all the bytes entry k declares
DataAvailable(k) ==
    tar.seen[k].at + TAR_BLOCK_SIZE + tar.seen[k].header.size <= TarLength(tar)

\* the bytes of the buffer that follow the header of entry k, size of them
DeclaredContent(k) ==
    [i \in 1 .. tar.seen[k].header.size |->
        TarBytes(tar)[tar.seen[k].at + TAR_BLOCK_SIZE + i]]

\* the regular-file entries with a name extraction accepts
FileEntries ==
    { k \in 1 .. Len(tar.seen) :
        /\ ~NotRegular(tar.seen[k].header.typeFlag)
        /\ EntryVerdict(tar.seen[k].header.parts) = "write" }

\* the files written for entry k
WrittenFor(k) == { w \in 1 .. Len(tar.written) : tar.written[w].entry = k }

\* C19: for every regular-file entry extraction writes a file of exactly
\* the bytes its size field counts; an entry whose header is malformed, or
\* whose declared bytes the archive does not hold, makes extraction fail and
\* no file is written in its place.
C19_ExactSizeOrExtractError ==
    \A k \in FileEntries :
        IF WellFormed(k) /\ DataAvailable(k)
        THEN \A w \in WrittenFor(k) :
                 tar.written[w].fileContent = DeclaredContent(k)
        ELSE /\ WrittenFor(k) = {}
             /\ tar.status \notin {"running", "returned"}

\* the same for archives that are whole: every file written has the declared
\* bytes
C19_ExactSizeWhenWhole ==
    \A k \in FileEntries :
        WellFormed(k) /\ DataAvailable(k)
        => /\ WrittenFor(k) # {}
           /\ \A w \in WrittenFor(k) :
                 tar.written[w].fileContent = DeclaredContent(k)

\* ------------------------------------------------------------------------
\* The sign package's verifiers
\* ------------------------------------------------------------------------
\* verifyFile(filePath, signatureBase64, publicKeyBase64) on an archive file
\* that can be read: the digest of the file goes to verifyData
verifyFile(a, signatureBase64, publicKeyBase64) ==
    verifyData(hashArchive(a).sha256, signatureBase64, publicKeyBase64)

\* verifyIndex(signedIndex, publicKeyBase64) on { index, signature }
verifyIndex(signedIndex, publicKeyBase64) ==
    verifyData(canonicalJson(signedIndex.index), signedIndex.signature,
               publicKeyBase64)

\* the sign package's verifyRevocationList(signedList, publicKeyBase64)
sign_verifyRevocationList(signedList, publicKeyBase64) ==
    verifyData(canonicalJson(signedList.entries), signedList.signature,
               publicKeyBase64)

\* ------------------------------------------------------------------------
\* C20
\* ------------------------------------------------------------------------
\* the signature of somebody else over the same data
ForgedSignature(data) == Ed25519Sign(data, PrivOf(OtherPub))

\* the data the index signature covers
IndexData == canonicalJson(StripSignature(catalog.index))

\* what the verifiers that return nothing but a boolean did, for every
\* input at hand: the signed index of the catalog, its archive files, the
\* revocation lists, a good and a forged signature, under the key pub
BooleanVerifierOutcomes(pub) ==
    { verifySignedIndex(catalog.index, pub),
      verifySignedIndex([catalog.index EXCEPT !.signature = ForgedSignature(IndexData)],
                        pub),
      verifyIndex([index |-> StripSignature(catalog.index),
                   signature |-> catalog.index.signature], pub),
      verifyIndex([index |-> StripSignature(catalog.index),
                   signature |-> ForgedSignature(IndexData)], pub),
      verifyData(IndexData, catalog.index.signature, pub),
      verifyData(IndexData, ForgedSignature(IndexData), pub) }
    \cup { verifyFile(a, signData(hashArchive(a).sha256, PrivOf(AuthorityPub)), pub) :
             a \in catalog.archivesDir }
    \cup { verifyFile(a, ForgedSignature(hashArchive(a).sha256), pub) :
             a \in catalog.archivesDir }
    \cup { sign_verifyRevocationList(RevocationOf(id), pub) :
             id \in RevocationIds \ {None} }

\* the client's verifiers catch what is thrown: an invalid result or false
\* under a key that is no key
ClientVerifiersReject(pub) ==
    /\ ~verifyAndParseIndex(catalog.index, pub).valid
    /\ \A id \in RevocationIds \ {None} : ~verifyRevocationList(RevocationOf(id), pub)
    /\ \A a \in catalog.archivesDir :
          verifyArchiveIntegrity(ArchiveBytes(a), hashArchive(a).sha256,
              signData(hashArchive(a).sha256, PrivOf(AuthorityPub)), pub)
          = "verification error"

SerializedBuilds(privateKeyBase64, timestamp) ==
    { serializeIndex(buildIndex(listing, privateKeyBase64, timestamp)) :
        listing \in Listings(catalog.archivesDir) }

\* C21: for the set of archives a build finds, one private key and one
\* timestamp, buildIndex gives one serialized signed index, whatever the
\* order in which the skill directories and the archive files are
\* enumerated; the index the build returned is that one.
C21_BuildIsOrderIndependent ==
    catalog.updates = 0
    => /\ \A priv \in {PrivOf(AuthorityPub), PrivOf(OtherPub)} :
             Cardinality(SerializedBuilds(priv, 0)) = 1
       /\ catalog.built
          => serializeIndex(catalog.index) \in SerializedBuilds(PrivOf(AuthorityPub), 0)

\* an index was built from a directory that holds two files of one version
\* of a skill, which can be enumerated in two orders; the file whose name
\* sorts last is the one the index lists
C21_Witness ==
    /\ catalog.built /\ catalog.updates = 0
    /\ Cardinality(Listings(catalog.archivesDir)) >= 2
    /\ \E a \in catalog.archivesDir :
          /\ a.rev = 3 /\ ArchiveFile(a.name, a.version, 1) \in catalog.archivesDir
          /\ Len(catalog.index.skills) = 1
          /\ catalog.index.skills[1].versions[a.version].archive.file
                = << a.name, a.version, "" >>

\* ------------------------------------------------------------------------
\* C22
\* ------------------------------------------------------------------------
\* C22: once installSkill has returned success, the install directory holds
\* the files of the archive, the metadata sidecar, and a config.yaml.
C22_InstallWritesConfig ==
    \A p \in Procs :
        (Finished(p) /\ opts[p].kind = "install" /\ res[p].success)
        => /\ fs[opts[p].skillName].exists
           /\ fs[opts[p].skillName].meta # NoMeta
           /\ fs[opts[p].skillName].config # None

\* the same without the config.yaml: the directory and the sidecar are there
C22_InstallWritesSidecar ==
    \A p \in Procs :
        (Finished(p) /\ opts[p].kind = "install" /\ res[p].success)
        => /\ fs[opts[p].skillName].exists
           /\ fs[opts[p].skillName].meta # NoMeta
           /\ fs[opts[p].skillName].meta.version = res[p].version

\* ------------------------------------------------------------------------
\* C23
\* ------------------------------------------------------------------------
\* the versions in release order
VersionRank(v) ==
    CASE v = "0.3.0" -> 1
      [] v = "0.4.0" -> 2
      [] v = "0.5.0" -> 3
      [] v = "1.0.0" -> 4
      [] v = "2.0.0" -> 5
      [] OTHER -> 0

\* a is a newer version than b
Newer(a, b) == VersionRank(a) > VersionRank(b)

\* p's update was called for an installed skill that the index lists
UpdateOfListed(p) ==
    /\ opts[p].kind = "update"
    /\ InstalledAtCall(p) # None
    /\ FindSkill(IndexOf(opts[p].index), opts[p].skillName) # 0

\* C23: checkForUpdate reports hasUpdate exactly when the index's latest is
\* a newer version than the installed one; an update called when the latest
\* is the installed version or an older one leaves the installed version in
\* place.
C23_UpdateOnlyToNewer ==
    \A p \in Procs :
        (Live(p) /\ UpdateOfListed(p))
        => /\ checkForUpdate(opts[p].skillName, hist[p].callEntry,
                             IndexOf(opts[p].index)).hasUpdate
              <=> Newer(EntryOf(p).latest, InstalledAtCall(p))
           /\ ~Newer(EntryOf(p).latest, InstalledAtCall(p))
              => fs[opts[p].skillName].meta = hist[p].callEntry[opts[p].skillName].meta

\* the same when the index's latest is not older than the installed version
C23_UpdateWhenNotOlder ==
    \A p \in Procs :
        (Live(p) /\ UpdateOfListed(p)
         /\ ~Newer(InstalledAtCall(p), EntryOf(p).latest))
        => /\ checkForUpdate(opts[p].skillName, hist[p].callEntry,
                             IndexOf(opts[p].index)).hasUpdate
              <=> Newer(EntryOf(p).latest, InstalledAtCall(p))
           /\ ~Newer(EntryOf(p).latest, InstalledAtCall(p))
              => fs[opts[p].skillName].meta = hist[p].callEntry[opts[p].skillName].meta

\* ------------------------------------------------------------------------
\* C24
\* ------------------------------------------------------------------------
\* the version strings in lexicographic order: "0.0.0" < "10.0.0" < "2.0.0"
LexRank(v) == CASE v = "0.0.0" -> 1 [] v = "10.0.0" -> 2 [] OTHER -> 3

\* the archives of skill n in the archives directory
ArchivesOf(n) == { a \in catalog.archivesDir : a.name = n }

\* the index has an entry for n whose latest is the greatest version string
\* among the archives of n, described by the manifest of an archive of that
\* version
LatestIsGreatest(n) ==
    \E e \in EntriesOf(catalog.index.skills, n) :
        /\ \E a \in ArchivesOf(n) :
              /\ e.latest = a.version
              /\ e.description = extractManifestFromArchive(a).description
        /\ \A a \in ArchivesOf(n) : LexRank(a.version) <= LexRank(e.latest)
        /\ DOMAIN e.versions = { a.version : a \in ArchivesOf(n) }

\* C24: the index buildIndex returns has an entry for every skill directory
\* that holds an archive; its latest is the lexicographically greatest
\* version string among the skill's archives and its skill-level metadata are
\* those of that version's manifest.
C24_EntryForEverySkillDir ==
    (catalog.built /\ catalog.updates = 0)
    => \A n \in BuildNames : ArchivesOf(n) # {} => LatestIsGreatest(n)

\* the same for the skill directories that hold a version other than 0.0.0
C24_EntryForSkillDirAbove000 ==
    (catalog.built /\ catalog.updates = 0)
    => \A n \in BuildNames :
          (\E a \in ArchivesOf(n) : a.version # "0.0.0") => LatestIsGreatest(n)

\* ------------------------------------------------------------------------
\* The linter's security check
\* ------------------------------------------------------------------------
\* A line is a sequence of words; a file's content is a sequence of lines.
\* A pattern is a phrase: its regex matches a text in which the words of the
\* phrase follow one another, whatever white space separates them.
SecurityPattern(id, phrase, severity, multiline) ==
    [id |-> id, pattern |-> phrase, severity |-> severity, multiline |-> multiline]

\* ids are kept in segments so that a suffix can be told from the rest
ALL_PATTERNS ==
    << SecurityPattern(<< "prompt-injection/ignore-previous" >>,
                       << "ignore", "previous" >>, "error", FALSE),
       SecurityPattern(<< "prompt-injection/system-prompt-manipulation" >>,
                       << "override", "prompt" >>, "error", FALSE),
       SecurityPattern(<< "prompt-injection/ignore-previous", "-multiline" >>,
                       << "ignore", "previous" >>, "error", TRUE),
       SecurityPattern(<< "prompt-injection/system-prompt", "-multiline" >>,
                       << "override", "prompt" >>, "error", TRUE),
       SecurityPattern(<< "exfiltration/fetch-url-concat", "-multiline" >>,
                       << "fetch", "concat" >>, "warning", TRUE) >>

\* ALL_PATTERNS.filter(p => !p.multiline), ALL_PATTERNS.filter(p => p.multiline)
LINE_PATTERNS == SelectSeq(ALL_PATTERNS, LAMBDA p : ~p.multiline)
MULTILINE_PATTERNS == SelectSeq(ALL_PATTERNS, LAMBDA p : p.multiline)

\* the lines a skill author writes
TextLines ==
    { << "ignore" >>, << "previous" >>, << "ignore", "previous" >>,
      << "override", "prompt" >>, << "fetch" >>, << "concat" >> }

\* the contents of a text file
Contents == UNION { [1 .. n -> TextLines] : n \in 0 .. MaxLines }

\* pattern.test(text)
Test(pattern, words) ==
    \E i \in 1 .. Len(words) :
        /\ i + Len(pattern) - 1 <= Len(words)
        /\ SubSeq(words, i, i + Len(pattern) - 1) = pattern

\* content.replace(/\s+/g, ' '): the words of all lines, one space apart
RECURSIVE normalizeWhitespace(_)
normalizeWhitespace(content) ==
    IF content = << >> THEN << >>
    ELSE content[1] \o normalizeWhitespace(Tail(content))

\* (mutant) the id is compared as it is
StripMultiline_Kept(id) == id

\* pattern.id.replace(/-multiline$/, '')
StripMultiline(id) ==
    IF Len(id) > 0 /\ id[Len(id)] = "-multiline" THEN SubSeq(id, 1, Len(id) - 1)
    ELSE id

\* a Finding; line 0 stands for no line number
Finding(severity, check, file, line) ==
    [severity |-> severity, check |-> << "security/" >> \o check, file |-> file,
     line |-> line]

\* pass 1: the findings of the line patterns on the lines from i on
RECURSIVE LinePass(_, _, _, _)
LinePass(file, lines, i, k) ==
    IF i > Len(lines) THEN << >>
    ELSE IF k > Len(LINE_PATTERNS) THEN LinePass(file, lines, i + 1, 1)
    ELSE (IF Test(LINE_PATTERNS[k].pattern, lines[i])
          THEN << Finding(LINE_PATTERNS[k].severity, LINE_PATTERNS[k].id, file, i) >>
          ELSE << >>)
         \o LinePass(file, lines, i, k + 1)

\* pass 2: the multi-line patterns from k on, against the normalized content
RECURSIVE MultilinePass(_, _, _, _)
MultilinePass(file, normalized, findings, k) ==
    IF k > Len(MULTILINE_PATTERNS) THEN findings
    ELSE LET pattern == MULTILINE_PATTERNS[k]
             baseId == StripMultiline(pattern.id)
             alreadyCaught ==
                 \E j \in 1 .. Len(findings) :
                     /\ findings[j].file = file
                     /\ findings[j].check = << "security/" >> \o baseId
         IN MultilinePass(file, normalized,
                IF Test(pattern.pattern, normalized) /\ ~alreadyCaught
                THEN Append(findings, Finding(pattern.severity, pattern.id, file, 0))
                ELSE findings,
                k + 1)

\* checkSecurity(skillDir) starts on a skill directory
ScanStart(files) == [NoLint EXCEPT !.files = files]

\* the loop body for a file that does not exist
ScanMissingFile ==
    /\ ~lint.returned
    /\ lint.file <= Len(TEXT_FILES)
    /\ lint.files[lint.file] = Missing
    /\ lint' = [lint EXCEPT !.file = @ + 1]
    /\ UNCHANGED exceptLint

\* the loop body for a file that exists: both passes
ScanFile ==
    /\ ~lint.returned
    /\ lint.file <= Len(TEXT_FILES)
    /\ lint.files[lint.file] # Missing
    /\ LET file == TEXT_FILES[lint.file]
           content == lint.files[lint.file]
           afterLines == lint.findings \o LinePass(file, content, 1, 1)
       IN lint' = [lint EXCEPT
                      !.file = @ + 1,
                      !.findings = MultilinePass(file, normalizeWhitespace(content),
                                                 afterLines, 1)]
    /\ UNCHANGED exceptLint

\* return { pass: !hasErrors, findings }
ScanReturn ==
    /\ ~lint.returned
    /\ lint.file > Len(TEXT_FILES)
    /\ lint' = [lint EXCEPT
                   !.returned = TRUE,
                   !.pass = ~\E j \in 1 .. Len(lint.findings) :
                                 lint.findings[j].severity = "error"]
    /\ UNCHANGED exceptLint

\* SKILL.md and reference.md hold any content or are missing; CHANGELOG.md is
\* missing or one line long
InitLint ==
    /\ InitClient
    /\ cache = NewCache
    /\ catalog = NoCatalog
    /\ tar = NoTar
    /\ lint \in { ScanStart(<< a, b, c >>) :
                    a \in Contents \cup {Missing},
                    b \in Contents \cup {Missing},
                    c \in { Missing, << << "ignore", "previous" >> >> } }

NextLint == ScanMissingFile \/ ScanFile \/ ScanReturn

SpecLint == InitLint /\ [][NextLint]_vars

\* ------------------------------------------------------------------------
\* C25
\* ------------------------------------------------------------------------
\* the files scanned so far that exist
Scanned == { f \in 1 .. Len(TEXT_FILES) : f < lint.file /\ lint.files[f] # Missing }

\* the multi-line rules
MultilineRules == { ALL_PATTERNS[k] : k \in { m \in DOMAIN ALL_PATTERNS :
                                                 ALL_PATTERNS[m].multiline } }

\* the words of phrase follow one another somewhere in the content of f,
\* line ends counting as white space
MatchesNormalized(f, phrase) ==
    LET words == normalizeWhitespace(lint.files[f])
    IN \E i \in 1 .. Len(words) - 1 : words[i] = phrase[1] /\ words[i + 1] = phrase[2]

\* the findings for file f under check id, with a line number or without
FindingsOf(f, id, withLine) ==
    { j \in 1 .. Len(lint.findings) :
        /\ lint.findings[j].file = TEXT_FILES[f]
        /\ lint.findings[j].check = << "security/" >> \o id
        /\ (lint.findings[j].line > 0) = withLine }

\* the id of a multi-line rule without its '-multiline' suffix
BaseId(id) == << id[1] >>

\* C25: for every file scanned and every multi-line rule that matches the
\* file's whitespace-normalized content there is exactly one finding without
\* a line number, unless a single-line finding for that file carries the
\* rule's id without '-multiline', and then there is none; a rule that does
\* not match gives none; findings in other files play no part.
C25_MultilineOnceUnlessCaught ==
    \A f \in Scanned : \A r \in MultilineRules :
        Cardinality(FindingsOf(f, r.id, FALSE))
        = IF MatchesNormalized(f, r.pattern) /\ FindingsOf(f, BaseId(r.id), TRUE) = {}
          THEN 1 ELSE 0

\* SKILL.md holds the phrase on one line and has the single-line finding
\* only; reference.md holds it split over two lines and has the multi-line
\* finding, the finding in SKILL.md notwithstanding
C25_Witness ==
    /\ lint.returned /\ ~lint.pass
    /\ FindingsOf(1, << "prompt-injection/ignore-previous" >>, TRUE) # {}
    /\ FindingsOf(1, << "prompt-injection/ignore-previous", "-multiline" >>, FALSE) = {}
    /\ FindingsOf(2, << "prompt-injection/ignore-previous" >>, TRUE) = {}
    /\ FindingsOf(2, << "prompt-injection/ignore-previous", "-multiline" >>, FALSE) # {}

\* ------------------------------------------------------------------------
\* C26
\* ------------------------------------------------------------------------
\* the entries a fresh buildIndex over the present archives directory can give
\* skill n, over every order readdir can return
RebuiltEntries(n) ==
    UNION { { e \in EntriesOf(buildIndex(listing, PrivOf(AuthorityPub), 0).skills, n) : TRUE } :
              listing \in Listings(catalog.archivesDir) }

\* the entry of skill n in the index as updateIndex left it agrees with every
\* rebuild in latest and in the skill-level metadata
AgreesWithRebuild(n) ==
    /\ RebuiltEntries(n) # {}
    /\ \A e \in EntriesOf(catalog.index.skills, n) : \A r \in RebuiltEntries(n) :
          /\ e.latest = r.latest
          /\ e.description = r.description

\* C26: after updateIndex(buildIndex(S), a) the entry of a's skill has the
\* latest and the skill-level metadata that buildIndex gives for the archives
\* directory with a added; an added version that is the smaller string does
\* not lower latest.
C26_UpdateAgreesWithRebuild ==
    (catalog.built /\ catalog.updates = 1) => AgreesWithRebuild(catalog.last.name)

\* the same when the added version is a greater string than '0.0.0' and than
\* the version of every other archive file of the skill
C26_UpdateWithGreatestAgrees ==
    (/\ catalog.built /\ catalog.updates = 1
     /\ StringGreater(catalog.last.version, "0.0.0")
     /\ \A b \in ArchivesOf(catalog.last.name) \ {catalog.last} :
           StringGreater(catalog.last.version, b.version))
    => AgreesWithRebuild(catalog.last.name)

\* ------------------------------------------------------------------------
\* C27
\* ------------------------------------------------------------------------
\* a pass of the extraction loop was made in this step
LoopPass == Len(tar'.seen) = Len(tar.seen) + 1

\* after the pass the loop reads further on in the buffer, or it is over (a
\* NaN offset fails the loop condition)
ReadsFurtherOn == tar'.offset = NaN \/ tar'.offset > tar.offset

\* C27: extraction terminates on every input buffer, because every pass of
\* the loop leaves the read offset strictly greater than it found it,
\* whatever the size field holds (negative, no octal number, more than the
\* buffer has).
C27_EveryPassAdvances ==
    [][LoopPass => ReadsFurtherOn]_vars

\* the same for the passes that skip the entry or stop on it, and for the
\* passes that write a file whose size field holds no number or a number
\* above minus one block
C27_PassAdvancesAboveMinusBlock ==
    [][(/\ LoopPass
        /\ \/ tar'.seen[Len(tar'.seen)].did # "write"
           \/ tar'.seen[Len(tar'.seen)].header.size = NaN
           \/ tar'.seen[Len(tar'.seen)].header.size > 0 - TAR_BLOCK_SIZE)
       => ReadsFurtherOn]_vars

\* as many passes as are followed were made over one and the same header,
\* each writing the file again, and the loop is still running
C27_LoopsOnNegativeSize ==
    /\ tar.status = "running"
    /\ Len(tar.seen) = MaxPasses
    /\ \A k \in 1 .. Len(tar.seen) :
          tar.seen[k].at = tar.offset /\ tar.seen[k].did = "write"

\* ------------------------------------------------------------------------
\* C28
\* ------------------------------------------------------------------------
\* p's updateSkill of an installed skill has returned a failure
UpdateFailed(p) ==
    /\ Finished(p) /\ opts[p].kind = "update" /\ ~res[p].success
    /\ hist[p].callEntry[opts[p].skillName].meta # NoMeta

\* C28: when updateSkill returns a failure after it started (the fetch, the
\* integrity check or the extraction of its install step failed), the
\* install directory still holds the previous version's sidecar and files
\* and the user's config.yaml, as they were at the call.
C28_FailedUpdateKeepsOldVersion ==
    \A p \in Procs :
        UpdateFailed(p) => fs[opts[p].skillName] = hist[p].callEntry[opts[p].skillName]

\* the same for the failures returned before the install step: nothing to
\* update to, or the directory could not be removed
C28_FailureBeforeInstallKeepsOldVersion ==
    \A p \in Procs :
        (UpdateFailed(p) /\ res[p].error \in {"AlreadyLatest", "RemoveFailed"})
        => fs[opts[p].skillName] = hist[p].callEntry[opts[p].skillName]

\* an update of a skill with a config.yaml failed in its install step, and
\* the directory is gone
C28_OldVersionLost ==
    \E p \in Procs :
        /\ UpdateFailed(p)
        /\ hist[p].callEntry[opts[p].skillName].config # None
        /\ hist[p].fetches > 0
        /\ ~fs[opts[p].skillName].exists

\* ------------------------------------------------------------------------
\* C29
\* ------------------------------------------------------------------------
\* in this step p's uninstallSkill removes an install directory that holds a
\* config.yaml
RemovesConfig(p) ==
    /\ pc[p] = "x_rm"
    /\ fs[opts[p].skillName].exists
    /\ fs[opts[p].skillName].config # None
    /\ ~fs'[opts[p].skillName].exists

\* this uninstallSkill has written a backup, and it holds the config's bytes
BackupWritten(p) ==
    /\ loc[p].configBackedUp
    /\ restoreConfigBackup(opts[p].skillName, backups) = fs[opts[p].skillName].config

\* C29: uninstallSkill removes an install directory that holds a config.yaml
\* only after it has written a backup with the config's bytes; when the
\* backup cannot be written, the directory and the config stay in place.
C29_NoRemovalWithoutBackup ==
    [][\A p \in Procs : RemovesConfig(p) => BackupWritten(p)]_vars

\* the same for an uninstall whose backup step met no I/O failure
C29_NoRemovalWithoutBackupUnlessIoError ==
    [][\A p \in Procs : (RemovesConfig(p) /\ ~hist[p].fault) => BackupWritten(p)]_vars

\* an uninstall of a skill with a config.yaml has succeeded, the directory is
\* gone, and there is no backup
C29_ConfigLost ==
    \E p \in Procs :
        /\ Finished(p) /\ UninstallWithConfig(p) /\ res[p].success
        /\ ~res[p].configBackedUp
        /\ ~fs[opts[p].skillName].exists
        /\ restoreConfigBackup(opts[p].skillName, backups) = None

\* ------------------------------------------------------------------------
\* C30
\* ------------------------------------------------------------------------
\* p's installSkill has returned success
InstallSucceeded(p) ==
    Finished(p) /\ opts[p].kind = "install" /\ res[p].success

\* the install directory holds the files of the archive of version v and no
\* other file, next to the sidecar and whatever config.yaml the user has
ExactlyFilesOf(n, v) == fs[n].files = FilesOfVersion(v)

\* C30: once installSkill has returned success for version v, the install
\* directory holds exactly the files of v's archive, the sidecar and the
\* user's config.yaml if any; no file that only an earlier installed version
\* had is left.
C30_InstallLeavesExactlyArchiveFiles ==
    \A p \in Procs :
        InstallSucceeded(p) => ExactlyFilesOf(opts[p].skillName, res[p].version)

\* the same for an install into a directory that did not exist at the call
C30_FreshInstallLeavesExactlyArchiveFiles ==
    \A p \in Procs :
        (InstallSucceeded(p) /\ ~hist[p].callEntry[opts[p].skillName].exists)
        => ExactlyFilesOf(opts[p].skillName, res[p].version)

\* 2.0.0 was installed over 1.0.0, and the reference.md that only 1.0.0 has
\* is still there
C30_StaleFileLeft ==
    \E p \in Procs :
        /\ InstallSucceeded(p) /\ res[p].version = "2.0.0"
        /\ hist[p].callEntry[opts[p].skillName].meta.version = "1.0.0"
        /\ FilesOfVersion("2.0.0")["reference.md"] = None
        /\ fs[opts[p].skillName].files["reference.md"]
               = FilesOfVersion("1.0.0")["reference.md"]
        /\ fs[opts[p].skillName].files["reference.md"] # None

====
